---- MODULE Spec2Model ----
(***************************************************************************)
(* A model of the glosilo Esperanto stemmer (src/src/glosilo/eostem.py),   *)
(* of the tables it reads (src/src/glosilo/consts.py) and of the           *)
(* Dictionary built on it (src/src/glosilo/dictionary.py).                 *)
(*                                                                         *)
(* Words are TLA+ strings, one character per letter.  The six Esperanto    *)
(* letters outside ASCII are written with the six characters Esperanto     *)
(* does not use:                                                           *)
(*     c^ = "q"   g^ = "x"   h^ = "4"   j^ = "y"   s^ = "5"   u^ = "w"      *)
(* so that every length, split position and slice is the one Python        *)
(* computes on the original word.                                          *)
(***************************************************************************)
EXTENDS Naturals, Integers, Sequences, FiniteSets, TLC

VARIABLES
    rad_file,              \* the root dictionary on disk: does it load, and its keys
    rad_dictionary_cache,  \* eostem._rad_dictionary_cache: None, or the loaded keys
    pc,                    \* "idle": no call in progress; "returned": a call has returned
    fn,                    \* the function the caller called last
    arg,                   \* its argument
    ret,                   \* what it returned, or the exception it raised
    dictionary,            \* the Dictionary object: is it constructed, and its words
    workers,               \* the threads inside _get_rad_dictionary, and the dict
                           \* objects they have made and seen
    lookup                 \* the last call of lookup_word_definitions: its
                           \* arguments, the sense files it read, and its result

vars == <<rad_file, rad_dictionary_cache, pc, fn, arg, ret, dictionary, workers,
          lookup>>

----------------------------------------------------------------------------
(* Python's str operations *)

\* word.startswith(p)
StartsWith(word, p) ==
    Len(p) <= Len(word) /\ SubSeq(word, 1, Len(p)) = p

\* word.endswith(s)
EndsWith(word, s) ==
    Len(s) <= Len(word) /\ SubSeq(word, Len(word) - Len(s) + 1, Len(word)) = s

\* word[n:]
DropFirst(word, n) ==
    SubSeq(word, n + 1, Len(word))

\* word[:-n], n > 0
DropLast(word, n) ==
    SubSeq(word, 1, Len(word) - n)

\* word[-1]
LastChar(word) ==
    SubSeq(word, Len(word), Len(word))

\* "".join(parts)
RECURSIVE Join(_)
Join(parts) ==
    IF parts = <<>> THEN "" ELSE Head(parts) \o Join(Tail(parts))

\* The upper-case letters of the input tokens, and what str.lower makes of them.
LowerChar(c) ==
    CASE c = "A" -> "a" [] c = "B" -> "b" [] c = "C" -> "c" [] c = "D" -> "d"
      [] c = "E" -> "e" [] c = "F" -> "f" [] c = "G" -> "g" [] c = "H" -> "h"
      [] c = "I" -> "i" [] c = "J" -> "j" [] c = "K" -> "k" [] c = "L" -> "l"
      [] c = "M" -> "m" [] c = "N" -> "n" [] c = "O" -> "o" [] c = "P" -> "p"
      [] c = "R" -> "r" [] c = "S" -> "s" [] c = "T" -> "t" [] c = "U" -> "u"
      [] c = "V" -> "v" [] c = "Z" -> "z" [] OTHER -> c

\* word.lower()
RECURSIVE Lower(_)
Lower(word) ==
    IF word = "" THEN ""
    ELSE LowerChar(SubSeq(word, 1, 1)) \o Lower(DropFirst(word, 1))

----------------------------------------------------------------------------
(* consts.py *)

\* consts.SUFFIXES, in the dict's insertion order (the order the loops try them)
SUFFIXES ==
    <<"aq", "ad", "ay", "ar", "ebl", "ec", "eg", "ej", "em", "et", "ig", "ix", "il",
      "ind", "ist", "uj", "ul", "it", "int", "at", "ant", "ot", "ont">>

\* consts.PREFIXES, in the dict's insertion order
PREFIXES ==
    <<"dis", "ek", "mal", "ne">>

VERB_SUFFIXES ==
    {"ad", "ant", "at", "ebl", "em", "ig", "il", "ind", "int", "it", "ix", "ont", "ot"}

INTERJECTIONS ==
    {"4a4a", "55", "a4", "adiaw", "ah", "aha", "aj", "amen", "aq", "ba", "be", "bis",
     "boj", "fek", "fi", "fik", "fikfek", "ha", "haha", "halo", "haqum", "he", "hej",
     "help", "hik", "hm", "ho", "hola", "hu", "hura", "jen", "klik", "kvivit", "miaw",
     "mjaw", "muu", "nu", "oho", "oj", "okej", "pa", "paf", "pru", "qaw", "sal", "ups",
     "ve", "wa", "waw"}

ARTICLES ==
    {"la"}

PREPOSITIONS ==
    {"al", "anstataw", "antaw", "apud", "da", "de", "dum", "ekde", "ekster", "eksteren",
     "el", "en", "for", "inter", "kontraw", "krom", "kun", "law", "malgraw", "ol",
     "per", "plus", "po", "por", "post", "preter", "pri", "pro", "qe", "qirkaw", "sen",
     "sub", "super", "sur", "tra", "trans", "xis"}

NUMBERS ==
    {"cent", "dek", "du", "kvar", "kvin", "mil", "naw", "nul", "ok", "sep", "ses",
     "tri", "unu"}

CONJUNCTIONS ==
    {"aw", "do", "kaj", "ke", "nek", "qar", "sed", "tamen"}

AU_ADVERBS ==
    {"almenaw", "ambaw", "ankaw", "ankoraw", "apenaw", "baldaw", "hieraw", "hodiaw",
     "kvazaw", "morgaw", "preskaw", "qirkaw"}

ADVERBS ==
    {"for", "jam", "mem", "nun", "nur", "plej", "pli", "plu", "tre", "tro", "tuj",
     "yus"} \cup AU_ADVERBS

CORRELATIVE_PARTICLES ==
    {"ajn", "qi"}

CORRELATIVES ==
    {"ia", "ial", "iam", "ie", "iel", "ies", "io", "iom", "iu", "kia", "kial", "kiam",
     "kie", "kiel", "kies", "kio", "kiom", "kiu", "nenia", "nenial", "neniam", "nenie",
     "neniel", "nenies", "nenio", "neniom", "neniu", "qia", "qial", "qiam", "qie",
     "qiel", "qies", "qio", "qiom", "qiu", "tia", "tial", "tiam", "tie", "tiel", "ties",
     "tio", "tiom", "tiu"}

PRONOUNS ==
    {"5i", "ili", "li", "mi", "ni", "oni", "ri", "si", "vi", "xi"}

VORTETOJ ==
    INTERJECTIONS \cup PREPOSITIONS \cup CONJUNCTIONS \cup NUMBERS \cup ADVERBS
    \cup CORRELATIVE_PARTICLES \cup CORRELATIVES \cup ARTICLES \cup PRONOUNS

ACX_ENDING_WORDS ==
    {"taq"}

AD_ENDING_WORDS ==
    {"iomgrad", "kanad", "nead"}

AJX_ENDING_WORDS ==
    {"lay"}

AR_ENDING_WORDS ==
    {"artefar", "bonfar", "refar", "registrar", "restar", "studjar", "urbregistar"}

EBL_ENDING_WORDS == {}

EC_ENDING_WORDS == {}

EG_ENDING_WORDS ==
    {"lawtleg", "releg", "voqleg"}

EJ_ENDING_WORDS == {}

EM_ENDING_WORDS ==
    {"piedprem"}

ET_ENDING_WORDS ==
    {"almozpet", "disket", "pardonpet"}

IG_ENDING_WORDS ==
    {"eksig", "korlig"}

IGX_ENDING_WORDS == {}

IL_ENDING_WORDS ==
    {"5il", "jarmil", "milmil", "rebril", "trembril"}

IND_ENDING_WORDS == {}

IST_ENDING_WORDS ==
    {"eksist", "krist", "kuneksist"}

UJ_ENDING_WORDS == {}

UL_ENDING_WORDS ==
    {"5aktabul", "alkohol-brul", "bluokul", "bunsen-brul", "celtabul", "duoninsul",
     "ekbrul", "friul", "kvarangul", "memortabul", "rektangul", "respegul",
     "sangomakul", "sanregul", "stratangul", "triangul"}

AT_ENDING_WORDS ==
    {"amrilat", "animstat", "bofrat", "bonstat", "gefrat", "labormerkat", "limdat",
     "manplat", "membro5tat", "mensostat", "mortbat", "naskixdat", "neadekvat",
     "pactraktat", "piedbat", "plenumkomitat", "prieksperimentat", "rebat", "sakstrat",
     "sanstat", "sen5pat", "sortobat"}

IT_ENDING_WORDS ==
    {"efrit", "hobit", "kreit", "krucmilit", "mondmilit", "qefdelegit", "tradicio-lig"}

OT_ENDING_WORDS ==
    {"florpot", "piednot"}

ANT_ENDING_WORDS ==
    {"adoleskant", "eksprezidant", "eldonkvant", "grimpoplant", "luigant", "popolkant",
     "qeflewtenant", "vicprezidant"}

INT_ENDING_WORDS ==
    {"montopint", "piedpint"}

ONT_ENDING_WORDS ==
    {"bankkont", "energifont", "glacimont", "tont"}

DIS_STARTING_WORDS ==
    {"disec", "diserv", "disking", "diskodorm", "diskturn", "diskutrond", "dispel"}

EK_STARTING_WORDS ==
    {"eklez", "eksklusiv", "eksmod", "ekspanc", "ekspedic", "eksplicit", "ekspozic",
     "eksprezident", "eksterland", "eksternorm", "eksterordinar", "eksterter",
     "ekstradic", "ekstremdekstr", "ekvador"}

NE_STARTING_WORDS ==
    {"nederland", "nenio"}

MAL_STARTING_WORDS == {}

FAKEOUT_WORDS ==
    {"qiela", "qielo"}

CORE_IMMUNE_CORES ==
    ACX_ENDING_WORDS \cup AD_ENDING_WORDS \cup AJX_ENDING_WORDS \cup AR_ENDING_WORDS
    \cup EBL_ENDING_WORDS \cup EC_ENDING_WORDS \cup EG_ENDING_WORDS \cup EJ_ENDING_WORDS
    \cup EM_ENDING_WORDS \cup ET_ENDING_WORDS \cup IG_ENDING_WORDS \cup IGX_ENDING_WORDS
    \cup IL_ENDING_WORDS \cup IND_ENDING_WORDS \cup IST_ENDING_WORDS \cup
    UJ_ENDING_WORDS \cup UL_ENDING_WORDS \cup AT_ENDING_WORDS \cup IT_ENDING_WORDS \cup
    OT_ENDING_WORDS \cup ANT_ENDING_WORDS \cup INT_ENDING_WORDS \cup ONT_ENDING_WORDS
    \cup DIS_STARTING_WORDS \cup EK_STARTING_WORDS \cup NE_STARTING_WORDS \cup
    MAL_STARTING_WORDS \cup FAKEOUT_WORDS

\* Words which look like they end in a plural or accusative ending, but don't.
STRIP_PLURAL_ACC_IMMUNE_WORDS ==
    {w \in VORTETOJ : EndsWith(w, "n") \/ EndsWith(w, "j")}

\* Words which look like they end in a standard ending, but don't.
CORE_IMMUNE_WORDS ==
    {w \in VORTETOJ :
        \E e \in {"a", "e", "i", "o", "u", "as", "is", "os", "us"} : EndsWith(w, e)}

----------------------------------------------------------------------------
(* eostem.py: the root dictionary and its cache *)

\* What _get_rad_dictionary stores on a first call: the keys of the JSON file, or
\* the empty dict when the file is missing or does not load.
LoadRadDictionary(file) ==
    IF file.loads THEN file.keys ELSE {}

\* _rad_dictionary_cache after a call of _get_rad_dictionary
get_rad_dictionary(cache, file) ==
    IF ~cache.loaded
    THEN [loaded |-> TRUE, dict |-> LoadRadDictionary(file)]
    ELSE cache

\* Variant of IsValidRoot: the validator of the legacy _strip_affixes, which also
\* accepts the core-immune strings and the closed-class words.
IsValidRootImmune(root, rad_dict) ==
    root \in rad_dict \cup CORE_IMMUNE_CORES \cup VORTETOJ

\* Variant of IsValidRoot: a closed-class word is a valid root too.
IsValidRootParticle(root, rad_dict) ==
    root \in rad_dict \/ root \in VORTETOJ

\* The test the reconstruction search and the compound splitter apply to a
\* candidate root: `root in rad_dict`.
IsValidRoot(root, rad_dict) ==
    root \in rad_dict

----------------------------------------------------------------------------
(* eostem.py: _try_split_compound *)

Range(seq) ==
    {seq[i] : i \in 1..Len(seq)}

Min(S) ==
    CHOOSE x \in S : \A y \in S : x <= y

\* set(consts.PREFIXES) | set(consts.SUFFIXES) | set(consts.PREPOSITIONS)
all_affixes ==
    Range(PREFIXES) \cup Range(SUFFIXES) \cup PREPOSITIONS

LINKING_VOWELS ==
    {"a", "e", "i", "o"}

\* sum(len(p) for p in parts if len(p) > 1)
RECURSIVE RootLength(_)
RootLength(parts) ==
    IF parts = <<>> THEN 0
    ELSE (IF Len(Head(parts)) > 1 THEN Len(Head(parts)) ELSE 0) + RootLength(Tail(parts))

\* Variant of SplitStep: the tests `not in all_affixes` forgotten.
SplitStepAffixesAllowed(word, rad_dict, i, best) ==
    LET left_part == SubSeq(word, 1, i)
        right_part == DropFirst(word, i)
        plain ==
            IF /\ IsValidRoot(left_part, rad_dict) /\ IsValidRoot(right_part, rad_dict)
               /\ Len(left_part) + Len(right_part) > best.score
            THEN [split |-> <<left_part, right_part>>,
                  score |-> Len(left_part) + Len(right_part)]
            ELSE best
        left_root == DropLast(left_part, 1)
        linking_vowel == LastChar(left_part)
    IN  IF /\ left_part # "" /\ linking_vowel \in LINKING_VOWELS
           /\ IsValidRoot(left_root, rad_dict) /\ IsValidRoot(right_part, rad_dict)
           /\ Len(left_root) + Len(right_part) > plain.score
        THEN [split |-> <<left_root, linking_vowel, right_part>>,
              score |-> Len(left_root) + Len(right_part)]
        ELSE plain

\* Variant of SplitStep: the score of a linking-vowel split counts the vowel,
\* len(left_part) for len(left_root).
SplitStepVowelCounted(word, rad_dict, i, best) ==
    LET left_part == SubSeq(word, 1, i)
        right_part == DropFirst(word, i)
        plain ==
            IF /\ IsValidRoot(left_part, rad_dict) /\ IsValidRoot(right_part, rad_dict)
               /\ left_part \notin all_affixes /\ right_part \notin all_affixes
               /\ Len(left_part) + Len(right_part) > best.score
            THEN [split |-> <<left_part, right_part>>,
                  score |-> Len(left_part) + Len(right_part)]
            ELSE best
        left_root == DropLast(left_part, 1)
        linking_vowel == LastChar(left_part)
    IN  IF /\ left_part # "" /\ linking_vowel \in LINKING_VOWELS
           /\ IsValidRoot(left_root, rad_dict) /\ IsValidRoot(right_part, rad_dict)
           /\ left_root \notin all_affixes /\ right_part \notin all_affixes
           /\ Len(left_part) + Len(right_part) > plain.score
        THEN [split |-> <<left_root, linking_vowel, right_part>>,
              score |-> Len(left_part) + Len(right_part)]
        ELSE plain

\* The body of the loop over the split points, at split point i (word[:i] | word[i:]);
\* best is [split, score], split = <<>> standing for None.
SplitStep(word, rad_dict, i, best) ==
    LET left_part == SubSeq(word, 1, i)
        right_part == DropFirst(word, i)
        plain ==
            IF /\ IsValidRoot(left_part, rad_dict) /\ IsValidRoot(right_part, rad_dict)
               /\ left_part \notin all_affixes /\ right_part \notin all_affixes
               /\ Len(left_part) + Len(right_part) > best.score
            THEN [split |-> <<left_part, right_part>>,
                  score |-> Len(left_part) + Len(right_part)]
            ELSE best
        left_root == DropLast(left_part, 1)
        linking_vowel == LastChar(left_part)
    IN  IF /\ left_part # "" /\ linking_vowel \in LINKING_VOWELS
           /\ IsValidRoot(left_root, rad_dict) /\ IsValidRoot(right_part, rad_dict)
           /\ left_root \notin all_affixes /\ right_part \notin all_affixes
           /\ Len(left_root) + Len(right_part) > plain.score
        THEN [split |-> <<left_root, linking_vowel, right_part>>,
              score |-> Len(left_root) + Len(right_part)]
        ELSE plain

\* for i in range(2, len(word) - 1)
RECURSIVE SplitLoop(_, _, _, _)
SplitLoop(word, rad_dict, i, best) ==
    IF i > Len(word) - 2 THEN best
    ELSE SplitLoop(word, rad_dict, i + 1, SplitStep(word, rad_dict, i, best))

\* "Only use recursive split if total root length is greater": best_split is
\* kept \o <<right_part>>, right_subsplit the split of right_part (<<>> for None).
UseRecursiveSplit(kept, right_part, right_subsplit) ==
    IF right_subsplit # <<>> /\ RootLength(right_subsplit) > Len(right_part)
    THEN kept \o right_subsplit
    ELSE kept \o <<right_part>>

\* _try_split_compound(word, rad_dict); <<>> stands for None
RECURSIVE try_split_compound(_, _)

\* The second half of _try_split_compound: the recursive split of the right part
SplitRightPart(best_split, rad_dict) ==
    IF Len(best_split) = 2
    THEN UseRecursiveSplit(<<best_split[1]>>, best_split[2],
                           try_split_compound(best_split[2], rad_dict))
    ELSE IF Len(best_split) = 3
    THEN UseRecursiveSplit(<<best_split[1], best_split[2]>>, best_split[3],
                           try_split_compound(best_split[3], rad_dict))
    ELSE best_split

try_split_compound(word, rad_dict) ==
    IF Len(word) < 4 THEN <<>>
    ELSE SplitRightPart(SplitLoop(word, rad_dict, 2, [split |-> <<>>, score |-> 0]).split,
                        rad_dict)

----------------------------------------------------------------------------
(* eostem.py: _strip_affixes2 *)

\* Variant of FirstPrepositions: the loop runs over the set itself, not sorted by
\* length, so any preposition the word starts with may come first.
FirstPrepositionsUnsorted(word_without_ending) ==
    {prep \in PREPOSITIONS : StartsWith(word_without_ending, prep)}

\* Step 1, the loop over sorted(consts.PREPOSITIONS, key=len, reverse=True): the
\* prepositions that may be the first one found that the word starts with.  The
\* order of the set among prepositions of one length is the interpreter's, so
\* each of the longest is one the loop may find first.
FirstPrepositions(word_without_ending) ==
    LET starts == {prep \in PREPOSITIONS : StartsWith(word_without_ending, prep)}
    IN  {prep \in starts : \A other \in starts : Len(other) <= Len(prep)}

\* Step 1: the preposition stripped, <<>> for None, else <<prep>>
StripPreposition(word_without_ending) ==
    IF FirstPrepositions(word_without_ending) = {} THEN <<>>
    ELSE <<CHOOSE prep \in FirstPrepositions(word_without_ending) : TRUE>>

\* Step 2: strip all prefixes from the remainder
RECURSIVE StripAllPrefixes(_, _)
StripAllPrefixes(remainder, temp_prefixes) ==
    LET found == {i \in 1..Len(PREFIXES) : StartsWith(remainder, PREFIXES[i])}
    IN  IF found = {} THEN [remainder |-> remainder, temp_prefixes |-> temp_prefixes]
        ELSE LET prefix == PREFIXES[Min(found)]
             IN  StripAllPrefixes(DropFirst(remainder, Len(prefix)),
                                  Append(temp_prefixes, prefix))

\* Variant of StripAllSuffixes: temp_suffixes.append(suffix) for
\* temp_suffixes.insert(0, suffix), the suffixes listed in the order stripped.
RECURSIVE StripAllSuffixesAppended(_, _)
StripAllSuffixesAppended(remainder, temp_suffixes) ==
    LET found == {i \in 1..Len(SUFFIXES) : EndsWith(remainder, SUFFIXES[i])}
    IN  IF found = {} THEN [remainder |-> remainder, temp_suffixes |-> temp_suffixes]
        ELSE LET suffix == SUFFIXES[Min(found)]
             IN  StripAllSuffixesAppended(DropLast(remainder, Len(suffix)),
                                          Append(temp_suffixes, suffix))

\* Step 3: strip all suffixes from what's left
RECURSIVE StripAllSuffixes(_, _)
StripAllSuffixes(remainder, temp_suffixes) ==
    LET found == {i \in 1..Len(SUFFIXES) : EndsWith(remainder, SUFFIXES[i])}
    IN  IF found = {} THEN [remainder |-> remainder, temp_suffixes |-> temp_suffixes]
        ELSE LET suffix == SUFFIXES[Min(found)]
             IN  StripAllSuffixes(DropLast(remainder, Len(suffix)),
                                  <<suffix>> \o temp_suffixes)

\* Steps 2 and 3 on what follows the preposition
StripAffixesAfter(preposition, p) ==
    [preposition |-> preposition, temp_prefixes |-> p.temp_prefixes] @@
    StripAllSuffixes(p.remainder, <<>>)

\* Steps 1 to 3: the core after maximum stripping and what was stripped:
\* [preposition, temp_prefixes, temp_suffixes, remainder]
MaxStripAfter(preposition, word_without_ending) ==
    StripAffixesAfter(preposition,
        StripAllPrefixes(DropFirst(word_without_ending, Len(Join(preposition))), <<>>))

MaxStrip(word_without_ending) ==
    MaxStripAfter(StripPreposition(word_without_ending), word_without_ending)

\* Variant of ScorePenalty: "ne" with suffixes is always penalized, the boost for
\* a single "ig" or "ul" forgotten.
ScorePenaltyNoBoost(reconstructed_root, stripped_prefixes, stripped_suffixes) ==
    IF reconstructed_root = "ne" /\ stripped_suffixes # <<>> THEN 1000
    ELSE IF reconstructed_root \in {"ig", "ul"} /\ "ne" \in Range(stripped_prefixes)
    THEN 1000 ELSE 0

\* The special cases for "ne"
ScorePenalty(reconstructed_root, stripped_prefixes, stripped_suffixes) ==
    LET ne_core ==
            IF reconstructed_root = "ne" /\ stripped_suffixes # <<>>
            THEN IF Len(stripped_suffixes) = 1 /\ stripped_suffixes[1] \in {"ig", "ul"}
                 THEN -1000 ELSE 1000
            ELSE 0
    IN  IF reconstructed_root \in {"ig", "ul"} /\ "ne" \in Range(stripped_prefixes)
        THEN 1000 ELSE ne_core

\* "Reconstruct the root": the last prefixes, the remainder, the first suffixes
ReconstructedRoot(ms, num_prefixes_to_keep_in_core, num_suffixes_to_keep_in_core) ==
    Join(SubSeq(ms.temp_prefixes,
                Len(ms.temp_prefixes) - num_prefixes_to_keep_in_core + 1,
                Len(ms.temp_prefixes)))
    \o ms.remainder
    \o Join(SubSeq(ms.temp_suffixes, 1, num_suffixes_to_keep_in_core))

\* The body of the two loops of steps 4 and 5 for one pair: <<>> when the
\* reconstructed root is not valid, else the one deconstruction it appends.
Reconstruction(ms, rad_dict, num_prefixes_to_keep_in_core, num_suffixes_to_keep_in_core) ==
    LET np == Len(ms.temp_prefixes)
        reconstructed_root ==
            ReconstructedRoot(ms, num_prefixes_to_keep_in_core, num_suffixes_to_keep_in_core)
        stripped_prefixes ==
            ms.preposition
            \o SubSeq(ms.temp_prefixes, 1, np - num_prefixes_to_keep_in_core)
        stripped_suffixes ==
            SubSeq(ms.temp_suffixes, num_suffixes_to_keep_in_core + 1, Len(ms.temp_suffixes))
    IN  IF IsValidRoot(reconstructed_root, rad_dict)
        THEN << [prefixes |-> stripped_prefixes,
                 core |-> <<reconstructed_root>>,
                 suffixes |-> stripped_suffixes,
                 root_len |-> Len(reconstructed_root),
                 penalty |-> ScorePenalty(reconstructed_root, stripped_prefixes,
                                          stripped_suffixes)] >>
        ELSE <<>>

\* Variant of ReconstructionLoop: range(len(temp_prefixes)) for
\* range(len(temp_prefixes) + 1), the pairs that give every prefix back left out.
RECURSIVE ReconstructionLoopShort(_, _, _)
ReconstructionLoopShort(ms, rad_dict, n) ==
    LET s1 == Len(ms.temp_suffixes) + 1
    IN  IF n >= Len(ms.temp_prefixes) * s1 THEN <<>>
        ELSE Reconstruction(ms, rad_dict, n \div s1, n % s1)
             \o ReconstructionLoopShort(ms, rad_dict, n + 1)

\* The two nested loops, flattened: pair number n is
\* (n \div (s+1), n % (s+1)), prefixes in the outer loop.
RECURSIVE ReconstructionLoop(_, _, _)
ReconstructionLoop(ms, rad_dict, n) ==
    LET s1 == Len(ms.temp_suffixes) + 1
    IN  IF n >= (Len(ms.temp_prefixes) + 1) * s1 THEN <<>>
        ELSE Reconstruction(ms, rad_dict, n \div s1, n % s1)
             \o ReconstructionLoop(ms, rad_dict, n + 1)

compound_penalty == 10

compound_penalty_original == 5

\* What step 5.5 appends for a compound split: nothing when the split is None
CompoundDeconstruction(compound_parts, prefixes, suffixes, penalty) ==
    IF compound_parts = <<>> THEN <<>>
    ELSE << [prefixes |-> prefixes,
             core |-> compound_parts,
             suffixes |-> suffixes,
             root_len |-> RootLength(compound_parts),
             penalty |-> penalty] >>

\* Variant of RemainderCompound: the stripped suffixes left out of the candidate.
RemainderCompoundNoSuffixes(ms, rad_dict) ==
    CompoundDeconstruction(try_split_compound(ms.remainder, rad_dict),
                           ms.preposition \o ms.temp_prefixes, <<>>,
                           compound_penalty)

\* Step 5.5, first half: the compound split of the remainder
RemainderCompound(ms, rad_dict) ==
    CompoundDeconstruction(try_split_compound(ms.remainder, rad_dict),
                           ms.preposition \o ms.temp_prefixes, ms.temp_suffixes,
                           compound_penalty)

\* Variant of OriginalCompound: the split of the original word gets the larger
\* penalty instead of the smaller.
OriginalCompoundHeavier(word_without_ending, rad_dict) ==
    CompoundDeconstruction(try_split_compound(word_without_ending, rad_dict),
                           <<>>, <<>>, compound_penalty + compound_penalty_original)

\* Step 5.5, second half: the compound split of the original word
OriginalCompound(word_without_ending, rad_dict) ==
    CompoundDeconstruction(try_split_compound(word_without_ending, rad_dict),
                           <<>>, <<>>, compound_penalty_original)

\* The list `deconstructions` as step 6 finds it, ms being the maximum stripping
DeconstructionsOf(ms, word_without_ending, rad_dict) ==
    ReconstructionLoop(ms, rad_dict, 0)
    \o RemainderCompound(ms, rad_dict)
    \o OriginalCompound(word_without_ending, rad_dict)

Deconstructions(word_without_ending, rad_dict) ==
    DeconstructionsOf(MaxStrip(word_without_ending), word_without_ending, rad_dict)

\* Variant of KeyLess: the penalty not negated, so the largest penalty sorts first.
KeyLessPenaltyAscending(a, b) ==
    LET na == Len(a.prefixes) + Len(a.suffixes)
        nb == Len(b.prefixes) + Len(b.suffixes)
    IN  \/ a.penalty < b.penalty
        \/ a.penalty = b.penalty /\ a.root_len < b.root_len
        \/ a.penalty = b.penalty /\ a.root_len = b.root_len /\ na < nb

\* Variant of KeyLess: the root length negated too, so the shortest root sorts first.
KeyLessShortestRoot(a, b) ==
    LET na == Len(a.prefixes) + Len(a.suffixes)
        nb == Len(b.prefixes) + Len(b.suffixes)
    IN  \/ -a.penalty < -b.penalty
        \/ -a.penalty = -b.penalty /\ -a.root_len < -b.root_len
        \/ -a.penalty = -b.penalty /\ a.root_len = b.root_len /\ na < nb

\* Variant of KeyLess: the key (x[3], -x[4], ...), the root length compared before
\* the penalty.
KeyLessRootLengthFirst(a, b) ==
    LET na == Len(a.prefixes) + Len(a.suffixes)
        nb == Len(b.prefixes) + Len(b.suffixes)
    IN  \/ a.root_len < b.root_len
        \/ a.root_len = b.root_len /\ -a.penalty < -b.penalty
        \/ a.root_len = b.root_len /\ -a.penalty = -b.penalty /\ na < nb

\* The sort key of step 6: (-x[4], x[3], len(x[0]) + len(x[2])), compared as
\* Python compares tuples
KeyLess(a, b) ==
    LET na == Len(a.prefixes) + Len(a.suffixes)
        nb == Len(b.prefixes) + Len(b.suffixes)
    IN  \/ -a.penalty < -b.penalty
        \/ -a.penalty = -b.penalty /\ a.root_len < b.root_len
        \/ -a.penalty = -b.penalty /\ a.root_len = b.root_len /\ na < nb

\* list.sort(key, reverse=True) is stable: among equal keys the earlier stays first.
RECURSIVE InsertDescending(_, _)
InsertDescending(sorted, x) ==
    IF sorted = <<>> THEN <<x>>
    ELSE IF KeyLess(Head(sorted), x) THEN <<x>> \o sorted
    ELSE <<Head(sorted)>> \o InsertDescending(Tail(sorted), x)

RECURSIVE SortDescending(_, _)
SortDescending(sorted, rest) ==
    IF rest = <<>> THEN sorted
    ELSE SortDescending(InsertDescending(sorted, Head(rest)), Tail(rest))

\* best[1], best[0], best[2]
Segmentation(best) ==
    [core |-> best.core, prefixes |-> best.prefixes, suffixes |-> best.suffixes]

\* Variant of ChooseDeconstruction: the fallback forgets the preposition.
ChooseDeconstructionDropPreposition(deconstructions, ms) ==
    IF deconstructions # <<>>
    THEN Segmentation(SortDescending(<<>>, deconstructions)[1])
    ELSE [core |-> <<ms.remainder>>,
          prefixes |-> ms.temp_prefixes,
          suffixes |-> ms.temp_suffixes]

\* Step 6 and the fallback
ChooseDeconstruction(deconstructions, ms) ==
    IF deconstructions # <<>>
    THEN Segmentation(SortDescending(<<>>, deconstructions)[1])
    ELSE [core |-> <<ms.remainder>>,
          prefixes |-> ms.preposition \o ms.temp_prefixes,
          suffixes |-> ms.temp_suffixes]

\* _strip_affixes2(word_without_ending), the dictionary being rad_dict
StripAffixes2Of(ms, word_without_ending, rad_dict) ==
    ChooseDeconstruction(DeconstructionsOf(ms, word_without_ending, rad_dict), ms)

strip_affixes2(word_without_ending, rad_dict) ==
    StripAffixes2Of(MaxStrip(word_without_ending), word_without_ending, rad_dict)

----------------------------------------------------------------------------
(* eostem.py: the endings and core_word *)

\* Variant of maybe_strip_plural_acc_ending: the test for "jn" comes too late, so
\* only the "n" of "jn" is stripped.
maybe_strip_plural_acc_ending_one_letter(word) ==
    IF word \in STRIP_PLURAL_ACC_IMMUNE_WORDS THEN word
    ELSE IF EndsWith(word, "n") \/ EndsWith(word, "j") THEN DropLast(word, 1)
    ELSE IF EndsWith(word, "jn") THEN DropLast(word, 2)
    ELSE word

\* Strips obvious plural and accusative endings.
maybe_strip_plural_acc_ending(word) ==
    IF word \in STRIP_PLURAL_ACC_IMMUNE_WORDS THEN word
    ELSE IF EndsWith(word, "jn") THEN DropLast(word, 2)
    ELSE IF EndsWith(word, "n") \/ EndsWith(word, "j") THEN DropLast(word, 1)
    ELSE word

\* Variant of replace_verb_ending: the test for CORE_IMMUNE_WORDS forgotten.
replace_verb_ending_no_immunity(word) ==
    IF \E e \in {"as", "is", "os", "us"} : EndsWith(word, e)
    THEN DropLast(word, 2) \o "i"
    ELSE IF EndsWith(word, "u") THEN DropLast(word, 1) \o "i"
    ELSE word

\* "Replace the verb ending from a word."
replace_verb_ending(word) ==
    IF word \in CORE_IMMUNE_WORDS THEN word
    ELSE IF \E e \in {"as", "is", "os", "us"} : EndsWith(word, e)
         THEN DropLast(word, 2) \o "i"
    ELSE IF EndsWith(word, "u") THEN DropLast(word, 1) \o "i"
    ELSE word

\* Variant of _split_ending: the test for VORTETOJ forgotten, so that the last
\* vowel of a closed-class word is split off too.
split_ending_of_particles(word) ==
    IF /\ Len(word) >= 2
       /\ LastChar(word) \in {"a", "e", "i", "o", "u"}
    THEN [word |-> DropLast(word, 1), orig_ending |-> LastChar(word)]
    ELSE [word |-> word, orig_ending |-> ""]

\* _split_ending(word): (word, orig_ending)
split_ending(word) ==
    IF /\ Len(word) >= 2
       /\ LastChar(word) \in {"a", "e", "i", "o", "u"}
       /\ word \notin VORTETOJ
    THEN [word |-> DropLast(word, 1), orig_ending |-> LastChar(word)]
    ELSE [word |-> word, orig_ending |-> ""]

\* The word core_word hands to _strip_affixes2 and the ending it split off
NormalizeEnding(orig_word) ==
    split_ending(replace_verb_ending(maybe_strip_plural_acc_ending(Lower(orig_word))))

\* Variant of PreferredEnding: the rule for a core that is a verb suffix left out.
PreferredEndingLastSuffixOnly(core, suffixes, orig_ending) ==
    IF suffixes # <<>> /\ suffixes[Len(suffixes)] \in VERB_SUFFIXES
    THEN "i" ELSE orig_ending

\* "If the last suffix is one that converts a verb to another type of word, then
\* change the ending to i", and the same "if the core itself is a verb suffix"
PreferredEnding(core, suffixes, orig_ending) ==
    IF \/ suffixes # <<>> /\ suffixes[Len(suffixes)] \in VERB_SUFFIXES
       \/ Len(core) = 1 /\ core[1] \in VERB_SUFFIXES
    THEN "i" ELSE orig_ending

\* Variant of PromoteCore: the prefixes are tried before the suffixes.
PromoteCorePrefixFirst(orig_word, prefixes, core, suffixes, preferred_ending) ==
    IF core = <<>> \/ (Len(core) = 1 /\ core[1] = "")
    THEN IF prefixes # <<>>
         THEN [orig_word |-> orig_word,
               prefixes |-> SubSeq(prefixes, 1, Len(prefixes) - 1),
               core |-> <<prefixes[Len(prefixes)]>>, suffixes |-> suffixes,
               preferred_ending |-> preferred_ending]
         ELSE IF suffixes # <<>>
         THEN [orig_word |-> orig_word, prefixes |-> prefixes,
               core |-> <<Head(suffixes)>>, suffixes |-> Tail(suffixes),
               preferred_ending |-> preferred_ending]
         ELSE [orig_word |-> orig_word, prefixes |-> prefixes, core |-> core,
               suffixes |-> suffixes, preferred_ending |-> preferred_ending]
    ELSE [orig_word |-> orig_word, prefixes |-> prefixes, core |-> core,
          suffixes |-> suffixes, preferred_ending |-> preferred_ending]

\* Variant of PromoteCore: prefixes.pop(0) for prefixes.pop(), the outermost
\* prefix promoted instead of the innermost.
PromoteCoreOutermost(orig_word, prefixes, core, suffixes, preferred_ending) ==
    IF core = <<>> \/ (Len(core) = 1 /\ core[1] = "")
    THEN IF suffixes # <<>>
         THEN [orig_word |-> orig_word, prefixes |-> prefixes,
               core |-> <<Head(suffixes)>>, suffixes |-> Tail(suffixes),
               preferred_ending |-> preferred_ending]
         ELSE IF prefixes # <<>>
         THEN [orig_word |-> orig_word, prefixes |-> Tail(prefixes),
               core |-> <<Head(prefixes)>>, suffixes |-> suffixes,
               preferred_ending |-> preferred_ending]
         ELSE [orig_word |-> orig_word, prefixes |-> prefixes, core |-> core,
               suffixes |-> suffixes, preferred_ending |-> preferred_ending]
    ELSE [orig_word |-> orig_word, prefixes |-> prefixes, core |-> core,
          suffixes |-> suffixes, preferred_ending |-> preferred_ending]

\* "If there's no core, try to get one from the prefixes or suffixes."
PromoteCore(orig_word, prefixes, core, suffixes, preferred_ending) ==
    IF core = <<>> \/ (Len(core) = 1 /\ core[1] = "")
    THEN IF suffixes # <<>>
         THEN [orig_word |-> orig_word, prefixes |-> prefixes,
               core |-> <<Head(suffixes)>>, suffixes |-> Tail(suffixes),
               preferred_ending |-> preferred_ending]
         ELSE IF prefixes # <<>>
         THEN [orig_word |-> orig_word,
               prefixes |-> SubSeq(prefixes, 1, Len(prefixes) - 1),
               core |-> <<prefixes[Len(prefixes)]>>, suffixes |-> suffixes,
               preferred_ending |-> preferred_ending]
         ELSE [orig_word |-> orig_word, prefixes |-> prefixes, core |-> core,
               suffixes |-> suffixes, preferred_ending |-> preferred_ending]
    ELSE [orig_word |-> orig_word, prefixes |-> prefixes, core |-> core,
          suffixes |-> suffixes, preferred_ending |-> preferred_ending]

\* The second half of core_word: from the result of _strip_affixes2 to the CoredWord
AssembleCoredWord(orig_word, orig_ending, stripped) ==
    PromoteCore(orig_word, stripped.prefixes, stripped.core, stripped.suffixes,
                PreferredEnding(stripped.core, stripped.suffixes, orig_ending))

CoreWordOf(orig_word, split, rad_dict) ==
    AssembleCoredWord(orig_word, split.orig_ending, strip_affixes2(split.word, rad_dict))

\* core_word(word): the CoredWord's orig_word, prefixes, core, suffixes and
\* preferred_ending
core_word(orig_word, rad_dict) ==
    CoreWordOf(orig_word, NormalizeEnding(orig_word), rad_dict)

----------------------------------------------------------------------------
(* eostem.py: the list objects core_word builds its result from *)

\* A list object: the line whose expression created it, and whether that was
\* while the call ran ("call") or when a module was loaded (the module's
\* name), in which case every call finds the same object.
Object(line) ==
    [created_at |-> line, by |-> "call"]

\* No list
NoObject ==
    [created_at |-> 0, by |-> ""]

NoObjects ==
    [prefixes |-> NoObject, core |-> NoObject, suffixes |-> NoObject,
     definitions |-> NoObject, parts |-> NoObject]

\* The list a split of _try_split_compound is: [left_part, right_part] or
\* [left_root, linking_vowel, right_part], or the concatenation with the split
\* of the right part.
SplitObject(compound_parts) ==
    IF Len(compound_parts) = 2 THEN Object(158)
    ELSE IF Len(compound_parts) = 3 /\ compound_parts[2] \in LINKING_VOWELS
    THEN Object(170)
    ELSE IF compound_parts[2] \in LINKING_VOWELS THEN Object(190)
    ELSE Object(181)

\* The lists of the tuple the reconstruction loops append: stripped_prefixes is
\* a slice of temp_prefixes or [preposition] + the slice, the core is the list
\* make_core makes of the root, stripped_suffixes is a slice of temp_suffixes.
ReconstructionObjects(ms) ==
    [prefixes |-> IF ms.preposition # <<>> THEN Object(290) ELSE Object(284),
     core |-> Object(109),
     suffixes |-> Object(286)]

\* The lists of the tuple step 5.5 appends for the split of the remainder:
\* all_prefixes, the split, and temp_suffixes itself.
RemainderCompoundObjects(compound_parts) ==
    [prefixes |-> Object(322), core |-> SplitObject(compound_parts),
     suffixes |-> Object(242)]

\* The lists of the tuple step 5.5 appends for the split of the original word
OriginalCompoundObjects(compound_parts) ==
    [prefixes |-> Object(343), core |-> SplitObject(compound_parts),
     suffixes |-> Object(345)]

\* The lists of the fallback: make_core(remainder), all_prefixes, temp_suffixes
FallbackObjects ==
    [prefixes |-> Object(358), core |-> Object(109), suffixes |-> Object(242)]

\* A deconstruction with the list objects it holds
WithObjects(deconstruction, objects) ==
    [prefixes |-> deconstruction.prefixes, core |-> deconstruction.core,
     suffixes |-> deconstruction.suffixes, root_len |-> deconstruction.root_len,
     penalty |-> deconstruction.penalty, objects |-> objects]

\* The list `deconstructions` with the objects of every tuple
DeconstructionsWithObjects(ms, word_without_ending, rad_dict) ==
    [i \in DOMAIN ReconstructionLoop(ms, rad_dict, 0) |->
        WithObjects(ReconstructionLoop(ms, rad_dict, 0)[i], ReconstructionObjects(ms))]
    \o [i \in DOMAIN RemainderCompound(ms, rad_dict) |->
        WithObjects(RemainderCompound(ms, rad_dict)[i],
                    RemainderCompoundObjects(RemainderCompound(ms, rad_dict)[i].core))]
    \o [i \in DOMAIN OriginalCompound(word_without_ending, rad_dict) |->
        WithObjects(OriginalCompound(word_without_ending, rad_dict)[i],
                    OriginalCompoundObjects(
                        OriginalCompound(word_without_ending, rad_dict)[i].core))]

\* The lists _strip_affixes2 returns: those of best, or those of the fallback
ChooseObjects(deconstructions) ==
    IF deconstructions # <<>>
    THEN SortDescending(<<>>, deconstructions)[1].objects
    ELSE FallbackObjects

StripAffixes2Objects(word_without_ending, rad_dict) ==
    ChooseObjects(DeconstructionsWithObjects(MaxStrip(word_without_ending),
                                             word_without_ending, rad_dict))

\* Variant of CoredWordObjects: definitions and parts are lists made once, when
\* the module is loaded, and handed to every CoredWord.
CoredWordObjectsShared(stripped, objects) ==
    [prefixes |-> objects.prefixes,
     core |-> IF stripped.core = <<>> \/ (Len(stripped.core) = 1 /\ stripped.core[1] = "")
              THEN IF stripped.suffixes # <<>> THEN Object(601)
                   ELSE IF stripped.prefixes # <<>> THEN Object(605)
                   ELSE objects.core
              ELSE objects.core,
     suffixes |-> objects.suffixes,
     definitions |-> [created_at |-> 610, by |-> "eostem"],
     parts |-> [created_at |-> 43, by |-> "structs"]]

\* The lists of the CoredWord core_word returns: prefixes and suffixes are the
\* lists _strip_affixes2 returned (popped in place when the core is promoted),
\* the core is its list or the new list [suffixes.pop(0)] or [prefixes.pop()],
\* definitions is the list display [] of the constructor call and parts the
\* list the default_factory makes.
CoredWordObjects(stripped, objects) ==
    [prefixes |-> objects.prefixes,
     core |-> IF stripped.core = <<>> \/ (Len(stripped.core) = 1 /\ stripped.core[1] = "")
              THEN IF stripped.suffixes # <<>> THEN Object(601)
                   ELSE IF stripped.prefixes # <<>> THEN Object(605)
                   ELSE objects.core
              ELSE objects.core,
     suffixes |-> objects.suffixes,
     definitions |-> Object(610),
     parts |-> Object(43)]

core_word_objects(orig_word, rad_dict) ==
    CoredWordObjects(strip_affixes2(NormalizeEnding(orig_word).word, rad_dict),
                     StripAffixes2Objects(NormalizeEnding(orig_word).word, rad_dict))

----------------------------------------------------------------------------
(* dictionary.py: the Dictionary built on core_word *)

\* The letters a token may start with: the characters str.isalpha accepts
Letters ==
    {"a", "b", "c", "d", "e", "f", "g", "h", "i", "j", "k", "l", "m", "n", "o", "p",
     "q", "r", "s", "t", "u", "v", "w", "x", "y", "z", "4", "5",
     "A", "B", "C", "D", "E", "F", "G", "H", "I", "J", "K", "L", "M", "N", "O", "P",
     "Q", "R", "S", "T", "U", "V", "W", "X", "Y", "Z"}

\* word.split("-")
RECURSIVE SplitHyphen(_)
SplitHyphen(word) ==
    LET hyphens == {i \in 1..Len(word) : SubSeq(word, i, i) = "-"}
    IN  IF hyphens = {} THEN <<word>>
        ELSE <<SubSeq(word, 1, Min(hyphens) - 1)>>
             \o SplitHyphen(DropFirst(word, Min(hyphens)))

\* consts.ENDING_ALTERNATIVES
ENDING_ALTERNATIVES ==
    [e \in {"a", "o", "e", "i"} |->
        CASE e = "a" -> <<"o", "e", "i">>
          [] e = "o" -> <<"a", "e", "i">>
          [] e = "e" -> <<"i", "o", "a">>
          [] e = "i" -> <<"o", "a", "e">>]

\* structs.CoredWord(...), the result of a call that returns.  core_type tells
\* the str core dictionary.py builds ("" is written <<>>) from the list core
\* core_word builds; analysed tells whether the call went through core_word.
CoredWord(orig_word, prefixes, core, core_type, suffixes, preferred_ending, preferred_definition, core_definition, parts, analysed) ==
    [raised |-> "", analysed |-> analysed, orig_word |-> orig_word,
     prefixes |-> prefixes, core |-> core, core_type |-> core_type,
     suffixes |-> suffixes, preferred_ending |-> preferred_ending,
     preferred_definition |-> preferred_definition,
     core_definition |-> core_definition, parts |-> parts]

\* The result of a call that raises exception
Raise(exception, analysed) ==
    [raised |-> exception, analysed |-> analysed, orig_word |-> "",
     prefixes |-> <<>>, core |-> <<>>, core_type |-> "str", suffixes |-> <<>>,
     preferred_ending |-> "", preferred_definition |-> "", core_definition |-> "",
     parts |-> <<>>]

\* structs.CoredWord(word, [], "", [], "", [], "???", "???")
UnknownWord(word, analysed) ==
    CoredWord(word, <<>>, <<>>, "str", <<>>, "", "???", "???", <<>>, analysed)

\* eostem.core_word(word) as dictionary.py receives it: the core is a list
CoreWordAnalysis(word, rad_dict) ==
    LET analysis == core_word(word, rad_dict)
    IN  CoredWord(analysis.orig_word, analysis.prefixes, analysis.core, "list",
                  analysis.suffixes, analysis.preferred_ending, "", "", <<>>, TRUE)

\* _choose_preferred_translation(key, value) for a value of one part without a
\* space: parts[0].replace(" ", "-")
ChoosePreferredTranslation(key, value) ==
    value

\* self.words after _parse_word_file_line has read every line "key: value" of
\* the word files: "We don't particularly care about definitions that *should* be
\* obvious", the words whose first prefix is ne or mal
KeptWords(analyses) ==
    {key \in DOMAIN analyses :
        ~(analyses[key].prefixes # <<>> /\ analyses[key].prefixes[1] \in {"ne", "mal"})}

ParseWordFilesOf(word_file, analyses) ==
    [key \in KeptWords(analyses) |->
        [analyses[key] EXCEPT
            !.preferred_definition = ChoosePreferredTranslation(key, word_file[key]),
            !.analysed = FALSE]]

ParseWordFiles(word_file, rad_dict) ==
    ParseWordFilesOf(word_file,
                     [key \in DOMAIN word_file |-> CoreWordAnalysis(key, rad_dict)])

\* _add_core_definitions raises: for a word whose ending has alternatives it
\* tests "analysis.core in (consts.VORTETOJ - ...)", and a list is unhashable
AddCoreDefinitionsRaises(words) ==
    \E word \in DOMAIN words :
        /\ words[word].preferred_ending \in DOMAIN ENDING_ALTERNATIVES
        /\ words[word].core_type = "list"

\* self.words after _add_core_definitions, when it does not raise: a word whose
\* ending has no alternatives takes its preferred definition as core definition
AddCoreDefinitions(words) ==
    [word \in DOMAIN words |->
        [words[word] EXCEPT !.core_definition = words[word].preferred_definition]]

\* The Dictionary after __init__: none when _add_core_definitions raises
NewDictionaryOf(words) ==
    IF AddCoreDefinitionsRaises(words) THEN [constructed |-> FALSE, words |-> <<>>]
    ELSE [constructed |-> TRUE, words |-> AddCoreDefinitions(words)]

\* _get_saved_gloss(word)
get_saved_gloss(words, word) ==
    IF word \in DOMAIN words THEN words[word] ELSE UnknownWord(word, FALSE)

\* lookup_cored_word(cored_word, num_prefixes, num_suffixes): "We always use the
\* LAST num_prefixes prefixes and the FIRST num_suffixes suffixes."  The sum
\* prefix + cored_word.core + suffix of a str and a list is a TypeError.
lookup_cored_word(words, cored_word, num_prefixes, num_suffixes) ==
    IF cored_word.core_type = "list" THEN Raise("TypeError", TRUE)
    ELSE
    LET prefix == Join(SubSeq(cored_word.prefixes,
                              Len(cored_word.prefixes) - num_prefixes + 1,
                              Len(cored_word.prefixes)))
        suffix == Join(SubSeq(cored_word.suffixes, 1, num_suffixes))
        root == prefix \o Join(cored_word.core) \o suffix
        preferred_ending == cored_word.preferred_ending
        endings == <<preferred_ending>> \o
                   (IF preferred_ending \in DOMAIN ENDING_ALTERNATIVES
                    THEN ENDING_ALTERNATIVES[preferred_ending] ELSE <<>>)
        found == {i \in 1..Len(endings) :
                    get_saved_gloss(words, root \o endings[i]).preferred_definition # "???"}
    IN  IF found # {}
        THEN [get_saved_gloss(words, root \o endings[Min(found)]) EXCEPT !.analysed = TRUE]
        ELSE UnknownWord(cored_word.orig_word, TRUE)

\* The (num_prefixes, num_suffixes) pairs of _reanalyze in the order of its two
\* loops: "Start with all prefixes and suffixes, and strip prefixes first."
ReanalyzeOrder(p, s) ==
    [i \in 1..((p + 1) * (s + 1)) |->
        [num_prefixes |-> p - ((i - 1) % (p + 1)),
         num_suffixes |-> s - ((i - 1) \div (p + 1))]]

\* The end of _reanalyze, lookups being what lookup_cored_word returned or raised
\* for each pair in order: the first exception or the first definition found
\* ends the loops; after them "If the core is a vorteto, then use that in the
\* core definition", a test no list core passes without a TypeError
ReanalyzeResult(words, word, analysis, lookups) ==
    LET stops == {i \in DOMAIN lookups :
                     \/ lookups[i].raised # ""
                     \/ lookups[i].preferred_definition # "???"}
    IN  IF stops # {}
        THEN IF lookups[Min(stops)].raised # "" THEN lookups[Min(stops)]
             ELSE [analysis EXCEPT
                      !.core_definition = lookups[Min(stops)].core_definition]
        ELSE IF analysis.core_type = "list" THEN Raise("TypeError", TRUE)
        ELSE IF Join(analysis.core) \in VORTETOJ /\ Join(analysis.core) \in DOMAIN words
        THEN [analysis EXCEPT
                 !.core_definition = words[Join(analysis.core)].preferred_definition,
                 !.preferred_definition = "???"]
        ELSE UnknownWord(word, TRUE)

\* The loops of _reanalyze over analysis, the result of core_word
ReanalyzeFrom(words, word, analysis, order) ==
    ReanalyzeResult(words, word, analysis,
                    [i \in DOMAIN order |->
                        lookup_cored_word(words, analysis, order[i].num_prefixes,
                                          order[i].num_suffixes)])

ReanalyzeOf(words, word, analysis) ==
    ReanalyzeFrom(words, word, analysis,
                  ReanalyzeOrder(Len(analysis.prefixes), Len(analysis.suffixes)))

\* _reanalyze(word)
reanalyze(words, word, rad_dict) ==
    ReanalyzeOf(words, word, CoreWordAnalysis(word, rad_dict))

\* self._get_saved_gloss(word), and self._reanalyze(word) when that has no
\* preferred definition
SavedOrReanalyzed(words, word, saved, rad_dict) ==
    IF saved.preferred_definition = "???"
    THEN reanalyze(words, word, rad_dict) ELSE saved

\* The exception raised by the first of the calls made one after the other that
\* raises, or none
FirstRaised(calls) ==
    LET raising == {i \in DOMAIN calls : calls[i].raised # ""}
    IN  IF raising = {} THEN Raise("", FALSE)
        ELSE Raise(calls[Min(raising)].raised,
                   \E i \in 1..Min(raising) : calls[i].analysed)

RECURSIVE get_gloss(_, _, _)

\* "g = self.get_gloss(part[:-1])" when the gloss with the ending o has no core
\* definition
PartGlossRetry(words, part, g, rad_dict) ==
    IF g.raised = "" /\ g.core_definition = "???"
    THEN [get_gloss(words, part, rad_dict) EXCEPT
             !.analysed = g.analysed \/ @]
    ELSE g

\* The gloss get_hyphenated_gloss takes for a part: the last part and a
\* closed-class part as they are, another part with the ending o, "then without"
PartGloss(words, part, is_last, rad_dict) ==
    IF is_last \/ part \in VORTETOJ
    THEN get_gloss(words, part, rad_dict)
    ELSE PartGlossRetry(words, part, get_gloss(words, part \o "o", rad_dict), rad_dict)

\* The CoredWord get_hyphenated_gloss returns, unless one of its calls raised
HyphenatedResult(orig_word, orig_parts, full_analysis, glosses, raised) ==
    IF raised.raised # "" THEN raised
    ELSE CoredWord(orig_word, glosses[1].prefixes, full_analysis.core,
                   full_analysis.core_type, glosses[Len(glosses)].suffixes,
                   full_analysis.preferred_ending,
                   full_analysis.preferred_definition, "???",
                   [i \in DOMAIN glosses |->
                       [glosses[i] EXCEPT !.orig_word = orig_parts[i]]],
                   full_analysis.analysed \/ \E i \in DOMAIN glosses : glosses[i].analysed)

HyphenatedOf(orig_word, orig_parts, full_analysis, glosses) ==
    HyphenatedResult(orig_word, orig_parts, full_analysis, glosses,
                     FirstRaised(<<full_analysis>> \o glosses))

\* get_hyphenated_gloss after the word is normalized and looked up: the full word
\* is reanalyzed only if it ends in a, e, i or o, then "we analyze each part
\* separately"
HyphenatedFrom(words, orig_word, word, saved, parts, rad_dict) ==
    HyphenatedOf(orig_word, SplitHyphen(orig_word),
                 IF saved.preferred_definition = "???"
                    /\ LastChar(word) \in {"a", "e", "i", "o"}
                 THEN reanalyze(words, word, rad_dict) ELSE saved,
                 [i \in DOMAIN parts |->
                     PartGloss(words, parts[i], i = Len(parts), rad_dict)])

HyphenatedNormalized(words, orig_word, word, rad_dict) ==
    HyphenatedFrom(words, orig_word, word, get_saved_gloss(words, word),
                   SplitHyphen(word), rad_dict)

\* get_hyphenated_gloss(word): "Analyzes a hyphenated word."
get_hyphenated_gloss(words, orig_word, rad_dict) ==
    HyphenatedNormalized(words, orig_word,
        replace_verb_ending(maybe_strip_plural_acc_ending(Lower(orig_word))),
        rad_dict)

\* The end of get_gloss: the analysis is copied and given the word as it came
GlossOf(orig_word, analysis) ==
    IF analysis.raised # "" THEN analysis
    ELSE [analysis EXCEPT !.orig_word = orig_word]

\* get_gloss from "word = eostem.maybe_strip_plural_acc_ending(word)" on
GlossNormalized(words, orig_word, word, rad_dict) ==
    GlossOf(orig_word,
            SavedOrReanalyzed(words, word, get_saved_gloss(words, word), rad_dict))

\* get_gloss(word)
get_gloss(words, orig_word, rad_dict) ==
    IF orig_word = "" THEN Raise("IndexError", FALSE)
    ELSE IF SubSeq(orig_word, 1, 1) \notin Letters
    THEN CoredWord(orig_word, <<>>, <<>>, "str", <<>>, "", "", "", <<>>, FALSE)
    ELSE IF Len(SplitHyphen(orig_word)) > 1 /\ Len(SplitHyphen(orig_word)[1]) > 1
    THEN get_hyphenated_gloss(words, orig_word, rad_dict)
    ELSE GlossNormalized(words, orig_word,
             replace_verb_ending(maybe_strip_plural_acc_ending(Lower(orig_word))),
             rad_dict)

----------------------------------------------------------------------------
(* lookup.py: lookup_word_definitions *)

\* Python's None, where a str may stand as well
None ==
    "None"

\* A dict with no key
EmptyDict ==
    [key \in {} |-> ""]

\* The dict {key: value}
Dict1(key, value) ==
    [k \in {key} |-> value]

\* separator.join(parts)
RECURSIVE JoinWith(_, _)
JoinWith(parts, separator) ==
    IF parts = <<>> THEN ""
    ELSE IF Len(parts) = 1 THEN parts[1]
    ELSE parts[1] \o separator \o JoinWith(Tail(parts), separator)

\* "List of common Esperanto endings to try"
endings ==
    <<"", "i", "o", "a", "e", "as", "is", "os", "us", "u", "n", "j", "jn">>

\* Variant of try_lookup_with_endings: the loop does not stop at the first
\* ending found, so the last one found is returned.
try_lookup_with_endings_last(base_word, kap_dict) ==
    LET found == {i \in DOMAIN endings : (base_word \o endings[i]) \in DOMAIN kap_dict}
        last == CHOOSE i \in found : \A j \in found : j <= i
    IN  IF base_word \in DOMAIN kap_dict THEN <<base_word, kap_dict[base_word]>>
        ELSE IF found = {} THEN <<None, None>>
        ELSE <<base_word \o endings[last], kap_dict[base_word \o endings[last]]>>

\* try_lookup_with_endings(base_word, kap_dict): (lookup_word, article_id), or
\* (None, None)
try_lookup_with_endings(base_word, kap_dict) ==
    LET found == {i \in DOMAIN endings : (base_word \o endings[i]) \in DOMAIN kap_dict}
    IN  IF base_word \in DOMAIN kap_dict THEN <<base_word, kap_dict[base_word]>>
        ELSE IF found = {} THEN <<None, None>>
        ELSE <<base_word \o endings[Min(found)],
               kap_dict[base_word \o endings[Min(found)]]>>

\* load_senses(article_id), jsondata being the files of jsondata.zip: {} when
\* the zip has no file for the article
load_senses(article_id, jsondata) ==
    IF article_id \in DOMAIN jsondata THEN jsondata[article_id] ELSE EmptyDict

\* "if lookup_word and article_id": neither None nor the empty string
Truthy(value) ==
    value # None /\ value # ""

\* `result` as lookup_word_definitions initialises it
NotFound ==
    [found |-> FALSE, lookup_method |-> None, lookup_word |-> None,
     article_id |-> None, definitions |-> EmptyDict]

\* `result` as a strategy that has found lookup_word returns it
Found(lookup_method, lookup_word, article_id, core_word_key, senses) ==
    [found |-> TRUE, lookup_method |-> lookup_method, lookup_word |-> lookup_word,
     article_id |-> article_id,
     definitions |-> Dict1(core_word_key, Dict1(lookup_word, senses[lookup_word]))]

\* Does the lookup (lookup_word, article_id) lead to senses?
HasSenses(looked_up, jsondata) ==
    /\ Truthy(looked_up[1]) /\ Truthy(looked_up[2])
    /\ looked_up[1] \in DOMAIN load_senses(looked_up[2], jsondata)

\* "".join(cored.prefixes) + "".join(cored.core) + "".join(partial_suffixes)
PartialBase(cored, i) ==
    Join(cored.prefixes) \o Join(cored.core) \o Join(SubSeq(cored.suffixes, 1, i))

\* Strategy 3 for one core part: the dict stored under it, EmptyDict for none
CoreDefinition(core_part, preferred_ending, kap_dict, rad_dict, jsondata) ==
    LET core_with_ending == core_part \o preferred_ending
        looked_up == try_lookup_with_endings(core_part, kap_dict)
    IN  IF (Len(core_part) = 1 /\ core_part \in LINKING_VOWELS) \/ core_part \notin rad_dict
        THEN EmptyDict
        ELSE IF /\ core_with_ending \in DOMAIN kap_dict
                /\ core_with_ending \in DOMAIN load_senses(kap_dict[core_with_ending],
                                                            jsondata)
        THEN Dict1(core_with_ending,
                   load_senses(kap_dict[core_with_ending], jsondata)[core_with_ending])
        ELSE IF HasSenses(looked_up, jsondata)
        THEN Dict1(looked_up[1], load_senses(looked_up[2], jsondata)[looked_up[1]])
        ELSE EmptyDict

\* Strategy 3: "Try looking up cores"
CoreStrategy(cored, kap_dict, rad_dict, jsondata) ==
    LET defined == {i \in DOMAIN cored.core :
                       CoreDefinition(cored.core[i], cored.preferred_ending, kap_dict,
                                      rad_dict, jsondata) # EmptyDict}
    IN  IF defined = {} THEN NotFound
        ELSE [found |-> TRUE, lookup_method |-> "core",
              lookup_word |-> JoinWith(cored.core, "|"), article_id |-> None,
              definitions |->
                  [core_part \in {cored.core[i] : i \in defined} |->
                      CoreDefinition(core_part, cored.preferred_ending, kap_dict,
                                     rad_dict, jsondata)]]

\* Strategy 2.5: "Try removing suffixes one at a time from the end", i being
\* the number of suffixes kept; then strategy 3
RECURSIVE SuffixStrippedStrategy(_, _, _, _, _)
SuffixStrippedStrategy(cored, i, kap_dict, rad_dict, jsondata) ==
    IF i < 0 THEN CoreStrategy(cored, kap_dict, rad_dict, jsondata)
    ELSE IF HasSenses(try_lookup_with_endings(PartialBase(cored, i), kap_dict), jsondata)
    THEN Found("suffix_stripped",
               try_lookup_with_endings(PartialBase(cored, i), kap_dict)[1],
               try_lookup_with_endings(PartialBase(cored, i), kap_dict)[2],
               JoinWith(cored.core, "|"),
               load_senses(try_lookup_with_endings(PartialBase(cored, i), kap_dict)[2],
                           jsondata))
    ELSE SuffixStrippedStrategy(cored, i - 1, kap_dict, rad_dict, jsondata)

\* Variant of WithEndingStrategy: strategy 2.5 is tried before strategy 2.
SuffixStrippedFirst(cored, kap_dict, rad_dict, jsondata) ==
    LET base_word == PartialBase(cored, Len(cored.suffixes))
        stripped == SuffixStrippedStrategy(cored, Len(cored.suffixes) - 1, kap_dict,
                                           {}, jsondata)
    IN  IF stripped.found THEN stripped
        ELSE IF HasSenses(try_lookup_with_endings(base_word, kap_dict), jsondata)
        THEN Found("with_ending", try_lookup_with_endings(base_word, kap_dict)[1],
                   try_lookup_with_endings(base_word, kap_dict)[2],
                   JoinWith(cored.core, "|"),
                   load_senses(try_lookup_with_endings(base_word, kap_dict)[2], jsondata))
        ELSE CoreStrategy(cored, kap_dict, rad_dict, jsondata)

\* Strategy 2: "Try reconstructed word with different endings"; then the
\* strategies after it
WithEndingStrategy(cored, kap_dict, rad_dict, jsondata) ==
    LET base_word == PartialBase(cored, Len(cored.suffixes))
    IN  IF HasSenses(try_lookup_with_endings(base_word, kap_dict), jsondata)
        THEN Found("with_ending", try_lookup_with_endings(base_word, kap_dict)[1],
                   try_lookup_with_endings(base_word, kap_dict)[2],
                   JoinWith(cored.core, "|"),
                   load_senses(try_lookup_with_endings(base_word, kap_dict)[2], jsondata))
        ELSE SuffixStrippedStrategy(cored, Len(cored.suffixes) - 1, kap_dict, rad_dict,
                                    jsondata)

\* lookup_word_definitions(word, cored, kap_dict, rad_dict): strategy 1, "Try
\* exact word match", then the strategies after it
lookup_word_definitions(word, cored, kap_dict, rad_dict, jsondata) ==
    IF word \in DOMAIN kap_dict /\ word \in DOMAIN load_senses(kap_dict[word], jsondata)
    THEN Found("exact", word, kap_dict[word],
               IF Len(cored.core) = 1 THEN cored.core[1] ELSE word,
               load_senses(kap_dict[word], jsondata))
    ELSE WithEndingStrategy(cored, kap_dict, rad_dict, jsondata)

----------------------------------------------------------------------------
(* The inputs: the dictionaries the file may hold and the words callers pass *)

\* A dictionary on disk holds at most this many roots.
MaxDictSize == 4

\* The closed-class words passed to core_word are at most this long.
MaxParticleLen == 2

\* Families of roots: the dictionary on disk is a part of one family.
RootFamilies ==
    { {"dezert", "zert", "sum", "dir"},
      {"ne", "ig", "ul", "neig"},
      {"ne", "ebl", "ind", "neebl"},
      {"bon", "hum", "humil", "bonhum"},
      {"hal", "parol", "mem", "k"},
      {"k", "kob", "on", "bonig", "bon"},
      {"nedir", "dirig", "dir", "sum"},
      {"ne", "neu", "lig"} }

RootPool ==
    UNION RootFamilies

Dictionaries ==
    UNION { {d \in SUBSET family : Cardinality(d) <= MaxDictSize} : family \in RootFamilies }

\* The file may be missing or fail to load, or hold one of the dictionaries.
RadFiles ==
    {[loads |-> FALSE, keys |-> {}]} \cup {[loads |-> TRUE, keys |-> d] : d \in Dictionaries}

\* Stems passed to _strip_affixes2: a root of the pool, or nothing, behind a
\* prefix or preposition and before a suffix; two roots side by side or around a
\* linking vowel; and some longer chains of affixes.
Stems ==
    {f \o r \o b : f \in {"", "ne", "en"}, r \in RootPool \cup {""}, b \in {"", "ig"}}
    \cup {a \o v \o b : a \in {"bon", "hum"}, v \in {"", "o"}, b \in {"bon", "hum", "humil"}}
    \cup {"malbonhum", "bonhumig", "enmalsumig", "malnedir", "dirigebl", "mal",
          "nead", "studjar", "bluokul", "neeblig", "neulig", "nezert", "kobonig", "koparol", "kobon", "bonbonhum", "bonhumbon",
     "nedirig", "porsum", "transdir"}

\* Tokens passed to core_word and to maybe_strip_plural_acc_ending
ParticleTokens ==
    {w \in VORTETOJ : Len(w) <= MaxParticleLen}
    \cup {"dek", "mem", "kaj", "boj", "ajn", "halo", "neniu", "for", "antaw", "ili",
     "xis", "unu"}

EndingTokens ==
    {r \o e : r \in {"parol", "hal", "k", "bon", "bonhum", "dezert", "zert", "ne"},
              e \in {"a", "e", "i", "o"}}
    \cup {r \o e \o x : r \in {"parol", "k", "bon", "ne"}, e \in {"a", "o"},
                        x \in {"j", "n", "jn"}}
    \cup {r \o e : r \in {"parol", "dir"}, e \in {"as", "is", "os", "us", "u"}}

AffixTokens ==
    {"parolanto", "parolejo", "neebla", "neigi", "neulo", "igi", "malo", "malneo",
     "ensumigi", "nekompreneble", "bonhumila", "bonohumoj", "malbonhuma",
     "Paroli", "DEZERTO", "Kaj", "", "a", "n", "jn",
     "diri", "nas", "nis", "nu", "i", "as",
     "nedirigi", "porsumo", "transdiri", "bonbonhumo"}

Tokens ==
    ParticleTokens \cup EndingTokens \cup AffixTokens

\* The word files a Dictionary is built from, each line "key: value"
WordFiles ==
    { <<>>,
      ("la" :> "the") @@ ("kaj" :> "and") @@ ("dek" :> "ten"),
      ("la" :> "the") @@ ("hundo" :> "dog"),
      ("la" :> "the") @@ ("malbona" :> "bad") }

\* Tokens passed to get_gloss
GlossTokens ==
    {"", "7", "1a", ".", "-a", "la", "LA", "Kaj", "dekn", "hundo", "parolas",
     "la-kaj", "d-ro", "dek-la", "la-", "la-7", "hundo-la", "la-hundo"}

\* The threads of the pool that call _get_rad_dictionary are at most this many.
MaxWorkers == 2

Workers ==
    1..MaxWorkers

\* No thread is inside _get_rad_dictionary and no dict object has been made:
\* where each thread is, the object it has loaded (0 for none), the object
\* _rad_dictionary_cache refers to, how many were made and which were returned.
NoWorkers ==
    [pc |-> [t \in Workers |-> "out"], local |-> [t \in Workers |-> 0],
     cached |-> 0, made |-> 0, seen |-> {}]

\* No Dictionary has been constructed.
\* A kap dictionary holds at most this many headwords.
MaxKapSize == 2

\* The article of ReVo a headword belongs to
ArticleOf(kap) ==
    IF kap \in {"parolanto", "parolanti", "paroli"} THEN "parol"
    ELSE IF kap \in {"bona", "malbonhuma"} THEN "bon"
    ELSE "hum"

\* Headwords a kap dictionary may hold
KapPool ==
    {"parolanto", "parolanti", "paroli", "bona", "humo", "malbonhuma"}

\* The kap dictionaries passed to lookup_word_definitions: headword -> article
KapDictionaries ==
    {[kap \in kaps |-> ArticleOf(kap)] : kaps \in {k \in SUBSET KapPool : Cardinality(k) <= MaxKapSize}}

\* The files of jsondata.zip when the headwords with_senses have senses: one
\* file for every article of theirs, holding the senses of its headwords
JsonDataOf(with_senses) ==
    [article \in {ArticleOf(kap) : kap \in with_senses} |->
        [kap \in {k \in with_senses : ArticleOf(k) = article} |-> "senses of " \o kap]]

\* The words looked up
LookupWords ==
    {"parolanto", "paroli", "malbonhuma", "bonohumoj", "xyz"}

NoLookup ==
    [word |-> "", cored |-> <<>>, kap_dict |-> EmptyDict, rad_dict |-> {},
     jsondata |-> EmptyDict, result |-> NotFound]

NoDictionary ==
    [constructed |-> FALSE, words |-> <<>>]

NoRet ==
    [word |-> "", prefixes |-> <<>>, core |-> <<>>, suffixes |-> <<>>, ending |-> "",
     raised |-> "", preferred_definition |-> "", core_definition |-> "",
     parts |-> <<>>, objects |-> NoObjects]

\* ret for the tuple _strip_affixes2 returns
SegmentationRet(r) ==
    [NoRet EXCEPT !.prefixes = r.prefixes, !.core = r.core, !.suffixes = r.suffixes]

\* ret for the CoredWord core_word returns
CoredWordRet(r) ==
    [NoRet EXCEPT !.word = r.orig_word, !.prefixes = r.prefixes, !.core = r.core,
                  !.suffixes = r.suffixes, !.ending = r.preferred_ending]

\* ret for a call of core_word: the CoredWord and the list objects it holds
CoreWordRet(word, rad_dict) ==
    [CoredWordRet(core_word(word, rad_dict)) EXCEPT
        !.objects = core_word_objects(word, rad_dict)]

----------------------------------------------------------------------------
(* The state machine: a caller calls one function at a time *)

Init ==
    /\ rad_file \in RadFiles
    /\ rad_dictionary_cache = [loaded |-> FALSE, dict |-> {}]
    /\ pc = "idle"
    /\ fn = ""
    /\ arg = ""
    /\ ret = NoRet
    /\ dictionary = NoDictionary
    /\ workers = NoWorkers
    /\ lookup = NoLookup

\* _get_rad_dictionary()
GetRadDictionary ==
    /\ pc = "idle"
    /\ rad_dictionary_cache' = get_rad_dictionary(rad_dictionary_cache, rad_file)
    /\ pc' = "returned"
    /\ fn' = "_get_rad_dictionary"
    /\ arg' = ""
    /\ ret' = NoRet
    /\ UNCHANGED <<rad_file, dictionary, workers, lookup>>

\* _strip_affixes2(word_without_ending); it calls _get_rad_dictionary first
StripAffixes2(word_without_ending) ==
    /\ pc = "idle"
    /\ rad_dictionary_cache' = get_rad_dictionary(rad_dictionary_cache, rad_file)
    /\ ret' = SegmentationRet(strip_affixes2(word_without_ending,
                                              rad_dictionary_cache'.dict))
    /\ pc' = "returned"
    /\ fn' = "_strip_affixes2"
    /\ arg' = word_without_ending
    /\ UNCHANGED <<rad_file, dictionary, workers, lookup>>

\* core_word(word)
CoreWord(word) ==
    /\ pc = "idle"
    /\ rad_dictionary_cache' = get_rad_dictionary(rad_dictionary_cache, rad_file)
    /\ ret' = CoreWordRet(word, rad_dictionary_cache'.dict)
    /\ pc' = "returned"
    /\ fn' = "core_word"
    /\ arg' = word
    /\ UNCHANGED <<rad_file, dictionary, workers, lookup>>

\* _try_split_compound(word, rad_dict), rad_dict being what _get_rad_dictionary
\* has returned to the caller; ret.core is the list returned, <<>> for None
TrySplitCompound(word) ==
    /\ pc = "idle"
    /\ rad_dictionary_cache.loaded
    /\ ret' = [NoRet EXCEPT !.core = try_split_compound(word, rad_dictionary_cache.dict)]
    /\ pc' = "returned"
    /\ fn' = "_try_split_compound"
    /\ arg' = word
    /\ UNCHANGED <<rad_file, rad_dictionary_cache, dictionary, workers, lookup>>

\* maybe_strip_plural_acc_ending(word)
MaybeStripPluralAccEnding(word) ==
    /\ pc = "idle"
    /\ ret' = [NoRet EXCEPT !.word = maybe_strip_plural_acc_ending(word)]
    /\ pc' = "returned"
    /\ fn' = "maybe_strip_plural_acc_ending"
    /\ arg' = word
    /\ UNCHANGED <<rad_file, rad_dictionary_cache, dictionary, workers, lookup>>

\* replace_verb_ending(word)
ReplaceVerbEnding(word) ==
    /\ pc = "idle"
    /\ ret' = [NoRet EXCEPT !.word = replace_verb_ending(word)]
    /\ pc' = "returned"
    /\ fn' = "replace_verb_ending"
    /\ arg' = word
    /\ UNCHANGED <<rad_file, rad_dictionary_cache, dictionary, workers, lookup>>

\* ret for the CoredWord get_gloss returns, or the exception it raises
GlossRet(g) ==
    [word |-> g.orig_word, prefixes |-> g.prefixes, core |-> g.core,
     suffixes |-> g.suffixes, ending |-> g.preferred_ending, raised |-> g.raised,
     preferred_definition |-> g.preferred_definition,
     core_definition |-> g.core_definition,
     parts |-> [i \in DOMAIN g.parts |-> g.parts[i].orig_word],
     objects |-> NoObjects]

\* Dictionary(): _read_word_files reads each line through core_word, which loads
\* the root dictionary, and _add_core_definitions follows; an exception leaves no
\* Dictionary behind
NewDictionary(word_file) ==
    /\ pc = "idle"
    /\ ~dictionary.constructed
    /\ rad_dictionary_cache' =
           IF DOMAIN word_file = {} THEN rad_dictionary_cache
           ELSE get_rad_dictionary(rad_dictionary_cache, rad_file)
    /\ dictionary' = NewDictionaryOf(ParseWordFiles(word_file, rad_dictionary_cache'.dict))
    /\ ret' = IF dictionary'.constructed THEN NoRet
              ELSE [NoRet EXCEPT !.raised = "TypeError"]
    /\ pc' = "returned"
    /\ fn' = "Dictionary"
    /\ arg' = ""
    /\ UNCHANGED <<rad_file, workers, lookup>>

\* What a call of get_gloss leaves: its result, and the root dictionary loaded
\* if the call went through core_word
GetGlossOf(g) ==
    /\ ret' = GlossRet(g)
    /\ rad_dictionary_cache' =
           IF g.analysed THEN get_rad_dictionary(rad_dictionary_cache, rad_file)
           ELSE rad_dictionary_cache

\* Dictionary.get_gloss(word)
GetGloss(word) ==
    /\ pc = "idle"
    /\ dictionary.constructed
    /\ GetGlossOf(get_gloss(dictionary.words, word,
                            get_rad_dictionary(rad_dictionary_cache, rad_file).dict))
    /\ pc' = "returned"
    /\ fn' = "get_gloss"
    /\ arg' = word
    /\ UNCHANGED <<rad_file, dictionary, workers, lookup>>

\* The caller takes the result and is ready for its next call.
Return ==
    /\ pc = "returned"
    /\ pc' = "idle"
    /\ fn' = ""
    /\ arg' = ""
    /\ ret' = NoRet
    /\ lookup' = NoLookup
    /\ UNCHANGED <<rad_file, rad_dictionary_cache, dictionary, workers>>

Next ==
    \/ GetRadDictionary
    \/ \E word_without_ending \in Stems : StripAffixes2(word_without_ending)
    \/ \E word \in Tokens : CoreWord(word)
    \/ \E word \in Stems : TrySplitCompound(word)
    \/ \E word \in Tokens : MaybeStripPluralAccEnding(word)
    \/ \E word \in Tokens : ReplaceVerbEnding(word)
    \/ Return

Spec == Init /\ [][Next]_vars

\* The caller of dictionary.py: it constructs the Dictionary and asks for glosses.
NextDictionary ==
    \/ \E word_file \in WordFiles : NewDictionary(word_file)
    \/ \E word \in GlossTokens : GetGloss(word)
    \/ Return

SpecDictionary == Init /\ [][NextDictionary]_vars

\* Thread t calls _get_rad_dictionary: "if _rad_dictionary_cache is None"
WorkerTest(t) ==
    /\ workers.pc[t] = "out"
    /\ workers' = [workers EXCEPT
                      !.pc[t] = IF rad_dictionary_cache.loaded THEN "return" ELSE "load"]
    /\ UNCHANGED <<rad_file, rad_dictionary_cache, pc, fn, arg, ret, dictionary, lookup>>

\* Thread t evaluates json.load(f), or {} when the file is missing or does not
\* load: a new dict object
WorkerLoad(t) ==
    /\ workers.pc[t] = "load"
    /\ workers' = [workers EXCEPT !.pc[t] = "store", !.local[t] = workers.made + 1,
                                  !.made = workers.made + 1]
    /\ UNCHANGED <<rad_file, rad_dictionary_cache, pc, fn, arg, ret, dictionary, lookup>>

\* Thread t stores its object: "_rad_dictionary_cache = ..."
WorkerStore(t) ==
    /\ workers.pc[t] = "store"
    /\ rad_dictionary_cache' = [loaded |-> TRUE, dict |-> LoadRadDictionary(rad_file)]
    /\ workers' = [workers EXCEPT !.pc[t] = "return", !.cached = workers.local[t]]
    /\ UNCHANGED <<rad_file, pc, fn, arg, ret, dictionary, lookup>>

\* Thread t returns the object the global refers to: "return _rad_dictionary_cache"
WorkerReturn(t) ==
    /\ workers.pc[t] = "return"
    /\ workers' = [workers EXCEPT !.pc[t] = "out", !.local[t] = 0,
                                  !.seen = workers.seen \cup {workers.cached}]
    /\ UNCHANGED <<rad_file, rad_dictionary_cache, pc, fn, arg, ret, dictionary, lookup>>

\* The threads of a pool call _get_rad_dictionary with no lock; the interpreter
\* may switch threads between any two of their steps.
NextWorkers ==
    \E t \in Workers :
        \/ WorkerTest(t)
        \/ WorkerLoad(t)
        \/ WorkerStore(t)
        \/ WorkerReturn(t)

SpecWorkers == Init /\ [][NextWorkers]_vars

\* lookup_word_definitions(word, cored, kap_dict, rad_dict), called as
\* lookup_word_to_dict calls it: cored is what core_word makes of the word and
\* rad_dict the root dictionary; jsondata is what load_senses finds in
\* jsondata.zip
LookupWordDefinitionsOf(word, kap_dict, rad_dict, jsondata) ==
    /\ lookup' = [word |-> word, cored |-> core_word(word, rad_dict),
                  kap_dict |-> kap_dict, rad_dict |-> rad_dict, jsondata |-> jsondata,
                  result |-> lookup_word_definitions(word, core_word(word, rad_dict),
                                                     kap_dict, rad_dict, jsondata)]
    /\ pc' = "returned"
    /\ fn' = "lookup_word_definitions"
    /\ arg' = word
    /\ ret' = NoRet
    /\ UNCHANGED <<rad_file, dictionary, workers>>

LookupWordDefinitions(word, kap_dict, jsondata) ==
    /\ pc = "idle"
    /\ rad_dictionary_cache' = get_rad_dictionary(rad_dictionary_cache, rad_file)
    /\ LookupWordDefinitionsOf(word, kap_dict, rad_dictionary_cache'.dict, jsondata)

\* The caller of lookup.py: it looks words up, one after the other.
NextLookup ==
    \/ \E word \in LookupWords, kap_dict \in KapDictionaries :
          \E with_senses \in SUBSET DOMAIN kap_dict :
              LookupWordDefinitions(word, kap_dict, JsonDataOf(with_senses))
    \/ Return

SpecLookup == Init /\ [][NextLookup]_vars

----------------------------------------------------------------------------
(* Properties *)

\* The call of function f has returned.
Returned(f) ==
    pc = "returned" /\ fn = f

\* The dictionary the returned call validated against
RadDict ==
    rad_dictionary_cache.dict

\* The dictionary the next load finds on disk
DiskDict ==
    LoadRadDictionary(rad_file)

\* (core, prefixes, suffixes) of the result
RetSegmentation ==
    [core |-> ret.core, prefixes |-> ret.prefixes, suffixes |-> ret.suffixes]

\* The whole word taken as one root, nothing stripped
Unsplit(word) ==
    [core |-> <<word>>, prefixes |-> <<>>, suffixes |-> <<>>]

\* The lowercased token after plural/accusative stripping and verb-ending replacement
NormalizedInput(word) ==
    replace_verb_ending(maybe_strip_plural_acc_ending(Lower(word)))

\* The verb-suffix rule of core_word applies to the result.
EndingForced ==
    \/ ret.suffixes # <<>> /\ ret.suffixes[Len(ret.suffixes)] \in VERB_SUFFIXES
    \/ Len(ret.core) = 1 /\ ret.core[1] \in VERB_SUFFIXES

(* C1 *)

\* C1: when no give-back reconstruction of what follows the provisionally
\* stripped preposition validates (and what follows is no compound either), the
\* result does not keep the preposition as a prefix; and a dictionary root that
\* merely starts with a preposition comes back whole: ([], [r], []).
C1_PrepositionKeptOnlyIfValidated ==
    Returned("_strip_affixes2") =>
        LET ms == MaxStrip(arg)
        IN  ( /\ ms.preposition # <<>>
              /\ ReconstructionLoop(ms, RadDict, 0) = <<>>
              /\ RemainderCompound(ms, RadDict) = <<>> )
            => /\ (ret.prefixes = <<>> \/ ret.prefixes[1] # ms.preposition[1])
               /\ (arg \in RadDict => RetSegmentation = Unsplit(arg))

(* C2 *)

C3_ClosedClassImmunity ==
    arg \in VORTETOJ =>
        /\ Returned("maybe_strip_plural_acc_ending") => ret.word = arg
        /\ Returned("core_word") =>
               RetSegmentation = Unsplit(arg) /\ ret.ending = ""

(* C4 *)

\* The four number/case forms of root + ending
NumberCaseForms(r, e) ==
    {r \o e \o x : x \in {"", "j", "n", "jn"}}

\* The result of core_word has the prefixes, core, suffixes and ending of cored.
SameAnalysis(cored) ==
    /\ ret.prefixes = cored.prefixes /\ ret.core = cored.core
    /\ ret.suffixes = cored.suffixes /\ ret.ending = cored.preferred_ending

\* C4 as stated: for every dictionary root r and e in {a, o}, the four forms
\* r+e, r+e+j, r+e+n, r+e+jn are all stripped to r+e, and core_word analyses
\* each of them as it analyses r+e.
C4_PluralAccusativeInvariance ==
    \A r \in DiskDict, e \in {"a", "o"} :
        arg \in NumberCaseForms(r, e) =>
            /\ Returned("maybe_strip_plural_acc_ending") => ret.word = r \o e
            /\ Returned("core_word") => SameAnalysis(core_word(r \o e, RadDict))

\* C4, amended: the same for the forms that are not closed-class words ending
\* in n or j (STRIP_PLURAL_ACC_IMMUNE_WORDS), which are left as they are.
C4_PluralAccusativeInvarianceNotImmune ==
    \A r \in DiskDict, e \in {"a", "o"} :
        (arg \in NumberCaseForms(r, e) /\ arg \notin STRIP_PLURAL_ACC_IMMUNE_WORDS) =>
            /\ Returned("maybe_strip_plural_acc_ending") => ret.word = r \o e
            /\ Returned("core_word") => SameAnalysis(core_word(r \o e, RadDict))

\* core_word has analysed the accusative plural of a dictionary root.
C4_Witness ==
    /\ Returned("core_word")
    /\ \E r \in DiskDict, e \in {"a", "o"} :
           arg = r \o e \o "jn" /\ ret.core = <<r>> /\ ret.ending = e

(* C5 *)

\* r starts with no prefix or preposition and ends with no suffix.
NoApplicableAffixes(r) ==
    /\ \A p \in Range(PREFIXES) \cup PREPOSITIONS : ~StartsWith(r, p)
    /\ \A suffix \in Range(SUFFIXES) : ~EndsWith(r, suffix)

\* C5 as stated: a dictionary root r with no applicable affixes is the whole
\* core of r + a/e/i/o and of r itself, even when r also splits as a compound.
C5_BareRoot ==
    \A r \in DiskDict :
        NoApplicableAffixes(r) =>
            /\ (Returned("core_word") /\ arg \in {r \o e : e \in {"a", "e", "i", "o"}})
                   => RetSegmentation = Unsplit(r)
            /\ (Returned("_strip_affixes2") /\ arg = r)
                   => RetSegmentation = Unsplit(r)

\* C5, amended: the same, provided r + ending is not itself a closed-class word.
C5_BareRootNotParticle ==
    \A r \in DiskDict :
        NoApplicableAffixes(r) =>
            /\ ( /\ Returned("core_word")
                 /\ arg \in {r \o e : e \in {"a", "e", "i", "o"}}
                 /\ arg \notin VORTETOJ )
                   => RetSegmentation = Unsplit(r)
            /\ (Returned("_strip_affixes2") /\ arg = r)
                   => RetSegmentation = Unsplit(r)

\* core_word has kept whole a dictionary root that also splits as a compound.
C5_Witness ==
    /\ Returned("core_word")
    /\ \E r \in DiskDict :
           /\ NoApplicableAffixes(r)
           /\ arg = r \o "a"
           /\ try_split_compound(r, RadDict) # <<>>
           /\ ret.core = <<r>>

(* C6 *)

\* The candidates of the returned call, in the order the code appends them
Candidates ==
    Deconstructions(arg, RadDict)

\* The total length of the validated roots of a core, the linking vowel between
\* two roots of a compound excluded
RECURSIVE ValidatedRootLengthFrom(_, _)
ValidatedRootLengthFrom(core, i) ==
    IF i > Len(core) THEN 0
    ELSE (IF 1 < i /\ i < Len(core) /\ core[i] \in LINKING_VOWELS THEN 0 ELSE Len(core[i]))
         + ValidatedRootLengthFrom(core, i + 1)

ValidatedRootLength(core) ==
    ValidatedRootLengthFrom(core, 1)

\* The number of affixes a candidate separates out
AffixCount(d) ==
    Len(d.prefixes) + Len(d.suffixes)

\* Candidate a is strictly better than candidate b: lower penalty, then longer
\* validated root, then more affixes.
StrictlyBetter(a, b) ==
    \/ a.penalty < b.penalty
    \/ /\ a.penalty = b.penalty
       /\ ValidatedRootLength(a.core) > ValidatedRootLength(b.core)
    \/ /\ a.penalty = b.penalty
       /\ ValidatedRootLength(a.core) = ValidatedRootLength(b.core)
       /\ AffixCount(a) > AffixCount(b)

\* C6: when there are candidates, the segmentation _strip_affixes2 returns is one
\* of them, and no candidate is strictly better than it by lowest penalty, then
\* longest validated root length, then largest number of separated affixes.
C6_BestCandidateReturned ==
    (Returned("_strip_affixes2") /\ Candidates # <<>>) =>
        \E i \in 1..Len(Candidates) :
            /\ Segmentation(Candidates[i]) = RetSegmentation
            /\ \A j \in 1..Len(Candidates) : ~StrictlyBetter(Candidates[j], Candidates[i])

\* _strip_affixes2 has chosen among three candidates or more, not the first one,
\* the penalty deciding between some and the root length between others.
C6_Witness ==
    /\ Returned("_strip_affixes2")
    /\ Len(Candidates) >= 3
    /\ RetSegmentation # Segmentation(Candidates[1])
    /\ \E i, j \in 1..Len(Candidates) : Candidates[i].penalty < Candidates[j].penalty
    /\ \E i, j \in 1..Len(Candidates) :
           /\ Candidates[i].penalty = Candidates[j].penalty
           /\ ValidatedRootLength(Candidates[i].core) < ValidatedRootLength(Candidates[j].core)

(* C7 *)

\* The stem is "ne" + a suffix, and "ne" and the suffix are both dictionary roots.
NegatedSuffix(s) ==
    /\ Returned("_strip_affixes2")
    /\ arg = "ne" \o s
    /\ "ne" \in RadDict /\ s \in RadDict

\* C7 as stated: "ne" + s is ne with the suffix s when s is ig or ul, and s with
\* the prefix ne for every other suffix s.
C7_NegationDisambiguation ==
    \A s \in Range(SUFFIXES) :
        NegatedSuffix(s) =>
            RetSegmentation =
                IF s \in {"ig", "ul"}
                THEN [core |-> <<"ne">>, prefixes |-> <<>>, suffixes |-> <<s>>]
                ELSE [core |-> <<s>>, prefixes |-> <<"ne">>, suffixes |-> <<>>]

\* C7, amended: for a suffix s other than ig and ul, "ne" + s is s with the
\* prefix ne unless "ne" + s is itself a dictionary root, and then it is that root.
C7_NegationDisambiguationUnlessRoot ==
    \A s \in Range(SUFFIXES) :
        NegatedSuffix(s) =>
            RetSegmentation =
                IF s \in {"ig", "ul"}
                THEN [core |-> <<"ne">>, prefixes |-> <<>>, suffixes |-> <<s>>]
                ELSE IF "ne" \o s \in RadDict THEN Unsplit("ne" \o s)
                ELSE [core |-> <<s>>, prefixes |-> <<"ne">>, suffixes |-> <<>>]

\* _strip_affixes2 has returned ne + ig although "neig" is a dictionary root too.
C7_Witness ==
    /\ NegatedSuffix("ig")
    /\ "neig" \in RadDict
    /\ RetSegmentation = [core |-> <<"ne">>, prefixes |-> <<>>, suffixes |-> <<"ig">>]

(* C8 *)

\* The affix-reconstruction candidates of the returned call
AffixCandidates ==
    ReconstructionLoop(MaxStrip(arg), RadDict, 0)

\* The compound split of the remainder and the one of the original stem, each
\* an empty list when there is none
RemainderCandidate ==
    RemainderCompound(MaxStrip(arg), RadDict)

OriginalCandidate ==
    OriginalCompound(arg, RadDict)

\* The result is the segmentation of one of the candidates of the list ds.
ReturnedFrom(ds) ==
    \E i \in 1..Len(ds) : Segmentation(ds[i]) = RetSegmentation

C8_WitnessAffix ==
    /\ Returned("_strip_affixes2")
    /\ OriginalCandidate # <<>>
    /\ RetSegmentation = Unsplit(arg)
    /\ ValidatedRootLength(OriginalCandidate[1].core) = Len(arg)

(* C9 *)

GiveBacks ==
    LET ms == MaxStrip(arg)
    IN  (0..Len(ms.temp_prefixes)) \X (0..Len(ms.temp_suffixes))

\* The root reconstructed for a give-back pair, and whether the search accepted it
TestedRoot(g) ==
    ReconstructedRoot(MaxStrip(arg), g[1], g[2])

Accepted(g) ==
    Reconstruction(MaxStrip(arg), RadDict, g[1], g[2]) # <<>>

\* The roots of a core: its elements but the linking vowel of a compound
CoreRoots(core) ==
    {core[i] : i \in {j \in 1..Len(core) :
                         ~(1 < j /\ j < Len(core) /\ core[j] \in LINKING_VOWELS)}}

IsRootSegment(x) ==
    x \in RadDict /\ x \notin Range(PREFIXES) \cup Range(SUFFIXES) \cup PREPOSITIONS

\* The splits of word at one position that are valid: two root segments, with
\* nothing or with one linking vowel between them.
ValidSplits(word) ==
    {<<SubSeq(word, 1, i), DropFirst(word, i)>> : i \in
        {j \in 2..(Len(word) - 2) :
            IsRootSegment(SubSeq(word, 1, j)) /\ IsRootSegment(DropFirst(word, j))}}
    \cup
    {<<SubSeq(word, 1, i - 1), SubSeq(word, i, i), DropFirst(word, i)>> : i \in
        {j \in 2..(Len(word) - 2) :
            /\ SubSeq(word, j, j) \in LINKING_VOWELS
            /\ IsRootSegment(SubSeq(word, 1, j - 1)) /\ IsRootSegment(DropFirst(word, j))}}

\* parts[i] is a linking vowel standing between two root segments.
IsLinkingVowelAt(parts, i) ==
    /\ 1 < i /\ i < Len(parts)
    /\ parts[i] \in LINKING_VOWELS
    /\ IsRootSegment(parts[i - 1]) /\ IsRootSegment(parts[i + 1])

\* The number of root segments of a list of parts
RootSegmentCount(parts) ==
    Cardinality({i \in 1..Len(parts) : ~IsLinkingVowelAt(parts, i)})

\* C11: _try_split_compound returns None for a string shorter than 4 and when no
\* split position is valid, and only then; a list it returns has two root
\* segments at least, each a valid root and no affix, every other element a
\* linking vowel between two root segments, and concatenates to the input.
C11_CompoundSplitWellFormed ==
    Returned("_try_split_compound") =>
        /\ ret.core = <<>> <=> (Len(arg) < 4 \/ ValidSplits(arg) = {})
        /\ ret.core # <<>> =>
               /\ RootSegmentCount(ret.core) >= 2
               /\ \A i \in 1..Len(ret.core) :
                      IsRootSegment(ret.core[i]) \/ IsLinkingVowelAt(ret.core, i)
               /\ IsRootSegment(ret.core[1]) /\ IsRootSegment(ret.core[Len(ret.core)])
               /\ Join(ret.core) = arg

\* _try_split_compound has returned two root segments and the linking vowel
\* between them.
C11_Witness ==
    /\ Returned("_try_split_compound")
    /\ Len(ret.core) = 3
    /\ ret.core[2] \in LINKING_VOWELS
    /\ Join(ret.core) = arg

\* _try_split_compound has refused a word of four letters made of two dictionary
\* roots that are affixes.
C11_WitnessNone ==
    /\ Returned("_try_split_compound")
    /\ ret.core = <<>>
    /\ Len(arg) >= 4
    /\ \E i \in 2..(Len(arg) - 2) :
           SubSeq(arg, 1, i) \in RadDict /\ DropFirst(arg, i) \in RadDict

(* C12 *)

\* C12: the list _try_split_compound returns is a valid split of greatest total
\* root length, the linking vowel not counted; so a split with a linking vowel is
\* returned only when no split without one is valid.
C12_LongestRootsSplit ==
    (Returned("_try_split_compound") /\ ret.core # <<>>) =>
        /\ ret.core \in ValidSplits(arg)
        /\ \A split \in ValidSplits(arg) :
               ValidatedRootLength(split) <= ValidatedRootLength(ret.core)
        /\ Len(ret.core) = 3 => \A split \in ValidSplits(arg) : Len(split) = 3

\* _try_split_compound has returned the split without a linking vowel of a word
\* that an earlier split position splits with one.
C12_Witness ==
    /\ Returned("_try_split_compound")
    /\ Len(ret.core) = 2
    /\ \E split \in ValidSplits(arg) :
           Len(split) = 3 /\ Len(split[1]) < Len(ret.core[1])

(* C13 *)

\* C13: compounds of three parts or more are supported: when the right-hand
\* segment of the split found is itself a compound of dictionary roots, the list
\* returned has three root segments or more.
C13_ThreePartCompounds ==
    (Returned("_try_split_compound") /\ ret.core # <<>>) =>
        (ValidSplits(ret.core[Len(ret.core)]) # {} => RootSegmentCount(ret.core) >= 3)

\* What the code does instead: the refinement of the right-hand segment is never
\* adopted, the list returned has exactly two root segments.
C13_AlwaysTwoRootSegments ==
    (Returned("_try_split_compound") /\ ret.core # <<>>) =>
        RootSegmentCount(ret.core) = 2

(* C14 *)

\* The ending _split_ending splits off the normalized token
SurfaceEnding ==
    NormalizeEnding(arg).orig_ending

C14_WitnessKept ==
    /\ Returned("core_word")
    /\ ret.suffixes # <<>> /\ ret.suffixes[Len(ret.suffixes)] \notin VERB_SUFFIXES
    /\ ret.core[1] \in RadDict
    /\ ret.ending = "o"

(* C15 *)

\* What _strip_affixes2 returned to the core_word call that has returned
Stripped ==
    strip_affixes2(NormalizeEnding(arg).word, RadDict)

\* _strip_affixes2 returned an empty root.
EmptyRoot ==
    Stripped.core = <<>> \/ Stripped.core = <<"">>

\* C15 as stated: an empty root is replaced by the first remaining suffix, or
\* when there is none by the first (outermost) remaining prefix.
C15_PromoteOutermostPrefix ==
    (Returned("core_word") /\ EmptyRoot) =>
        /\ Stripped.suffixes # <<>> =>
               /\ ret.core = <<Head(Stripped.suffixes)>>
               /\ ret.suffixes = Tail(Stripped.suffixes)
               /\ ret.prefixes = Stripped.prefixes
        /\ (Stripped.suffixes = <<>> /\ Stripped.prefixes # <<>>) =>
               /\ ret.core = <<Head(Stripped.prefixes)>>
               /\ ret.prefixes = Tail(Stripped.prefixes)
               /\ ret.suffixes = <<>>

\* C15, amended: ... or when there is none by the last (innermost) remaining
\* prefix, the one next to the root position.
C15_PromoteInnermostPrefix ==
    (Returned("core_word") /\ EmptyRoot) =>
        /\ Stripped.suffixes # <<>> =>
               /\ ret.core = <<Head(Stripped.suffixes)>>
               /\ ret.suffixes = Tail(Stripped.suffixes)
               /\ ret.prefixes = Stripped.prefixes
        /\ (Stripped.suffixes = <<>> /\ Stripped.prefixes # <<>>) =>
               /\ ret.core = <<Stripped.prefixes[Len(Stripped.prefixes)]>>
               /\ ret.prefixes = SubSeq(Stripped.prefixes, 1, Len(Stripped.prefixes) - 1)
               /\ ret.suffixes = <<>>

\* core_word has promoted the second of two prefixes into an empty root.
C15_Witness ==
    /\ Returned("core_word")
    /\ EmptyRoot
    /\ Stripped.suffixes = <<>> /\ Len(Stripped.prefixes) = 2
    /\ Stripped.prefixes[1] # Stripped.prefixes[2]
    /\ ret.core = <<Stripped.prefixes[2]>>

\* core_word has promoted a suffix into an empty root, prefixes remaining.
C15_WitnessSuffix ==
    /\ Returned("core_word")
    /\ EmptyRoot
    /\ Stripped.suffixes # <<>> /\ Stripped.prefixes # <<>>
    /\ ret.core = <<Head(Stripped.suffixes)>>

(* C16 *)

\* C16: for a token that is not empty and starts with a letter, the core
\* core_word returns is a non-empty list with no empty string in it.
C16_NoEmptyRoot ==
    (Returned("core_word") /\ arg # "" /\ SubSeq(arg, 1, 1) \in Letters) =>
        /\ ret.core # <<>>
        /\ \A i \in 1..Len(ret.core) : ret.core[i] # ""

(* C17 *)

\* C17 as stated: every element of the core is a validated root of two letters
\* or more, or a linking vowel strictly between two root elements; the first and
\* the last element are roots.
C17_CoreOfValidatedRoots ==
    Returned("core_word") =>
        /\ ret.core # <<>>
        /\ \A i \in 1..Len(ret.core) :
               \/ ret.core[i] \in RadDict /\ Len(ret.core[i]) >= 2
               \/ /\ 1 < i /\ i < Len(ret.core) /\ ret.core[i] \in LINKING_VOWELS
                  /\ ret.core[i - 1] \in RadDict /\ ret.core[i + 1] \in RadDict
        /\ ret.core[1] \in RadDict /\ ret.core[Len(ret.core)] \in RadDict

\* C17, amended: a core of two elements or more is a compound: its first and
\* last elements are validated roots and any other element is a linking vowel
\* strictly between two roots; a core of one element is a validated root, or,
\* no candidate having validated, the unvalidated remainder or a promoted affix.
C17_CoreShape ==
    Returned("core_word") =>
        /\ Len(ret.core) >= 1
        /\ Len(ret.core) > 1 =>
               /\ IsRootSegment(ret.core[1]) /\ IsRootSegment(ret.core[Len(ret.core)])
               /\ \A i \in 1..Len(ret.core) :
                      IsRootSegment(ret.core[i]) \/ IsLinkingVowelAt(ret.core, i)
        /\ (Len(ret.core) = 1 /\ ret.core[1] \notin RadDict) =>
               /\ Deconstructions(NormalizeEnding(arg).word, RadDict) = <<>>
               /\ ret.core[1] \in {Stripped.core[1]}
                      \cup Range(Stripped.prefixes) \cup Range(Stripped.suffixes)

\* core_word has returned a compound core with a linking vowel between two roots.
C17_Witness ==
    /\ Returned("core_word")
    /\ Len(ret.core) = 3
    /\ ret.core[2] \in LINKING_VOWELS
    /\ IsRootSegment(ret.core[1]) /\ IsRootSegment(ret.core[3])

\* core_word has returned the remainder of the fallback, no dictionary root.
C17_WitnessUnvalidated ==
    /\ Returned("core_word")
    /\ Len(ret.core) = 1 /\ ret.core[1] \notin RadDict /\ Len(ret.core[1]) >= 2
    /\ ret.core = Stripped.core

(* C18 *)

\* The finite tense endings, the volitive ending and the infinitive marker
VerbEndings ==
    {"as", "is", "os", "us", "u"}

\* The stems of which word is a verb form: word = stem + e, e one of verb_endings
StemsOf(word, verb_endings) ==
    {DropLast(word, Len(e)) : e \in {x \in verb_endings : EndsWith(word, x)}}

\* C18 as stated: replace_verb_ending rewrites the tense or volitive ending of a
\* lowercased word that is no closed-class word to "i", returns a closed-class
\* word unchanged and is idempotent; core_word on stem + as, is, os, us, u or i
\* gives what it gives on stem + i, with the ending "i" (the stem not empty).
C18_VerbEndingNormalization ==
    /\ Returned("replace_verb_ending") =>
           /\ (arg = Lower(arg) /\ arg \notin VORTETOJ) =>
                  \A stem \in StemsOf(arg, {"as", "is", "os", "us"}) \cup
                        (IF StemsOf(arg, {"as", "is", "os", "us"}) = {}
                         THEN StemsOf(arg, {"u"}) ELSE {}) :
                      ret.word = stem \o "i"
           /\ arg \in VORTETOJ => ret.word = arg
           /\ replace_verb_ending(ret.word) = ret.word
    /\ (Returned("core_word") /\ arg = Lower(arg) /\ arg \notin VORTETOJ) =>
           \A stem \in StemsOf(arg, VerbEndings \cup {"i"}) \ {""} :
               SameAnalysis(core_word(stem \o "i", RadDict)) /\ ret.ending = "i"

\* C18, amended: the same, the ending being "i" when stem + i is no closed-class
\* word (when it is one, every form is analysed as that word).
C18_VerbEndingNormalizationOfStems ==
    /\ Returned("replace_verb_ending") =>
           /\ (arg = Lower(arg) /\ arg \notin VORTETOJ) =>
                  \A stem \in StemsOf(arg, {"as", "is", "os", "us"}) \cup
                        (IF StemsOf(arg, {"as", "is", "os", "us"}) = {}
                         THEN StemsOf(arg, {"u"}) ELSE {}) :
                      ret.word = stem \o "i"
           /\ arg \in VORTETOJ => ret.word = arg
           /\ replace_verb_ending(ret.word) = ret.word
    /\ (Returned("core_word") /\ arg = Lower(arg) /\ arg \notin VORTETOJ) =>
           \A stem \in StemsOf(arg, VerbEndings \cup {"i"}) \ {""} :
               /\ SameAnalysis(core_word(stem \o "i", RadDict))
               /\ stem \o "i" \notin VORTETOJ => ret.ending = "i"

\* core_word has analysed the conditional of a dictionary root as its infinitive.
C18_Witness ==
    /\ Returned("core_word")
    /\ \E stem \in RadDict :
           arg = stem \o "us" /\ ret.core = <<stem>> /\ ret.ending = "i"

\* replace_verb_ending has left unchanged a closed-class word in -is.
C18_WitnessParticle ==
    /\ Returned("replace_verb_ending")
    /\ arg \in VORTETOJ /\ EndsWith(arg, "is")
    /\ ret.word = arg

(* C19 *)

\* The stem core_word handed to _strip_affixes2, and the candidates found for it
CoreStem ==
    NormalizeEnding(arg).word

CoreCandidates ==
    Deconstructions(CoreStem, RadDict)

\* Candidate i is one no candidate sorts before, and the first such in the list.
IsWinner(ds, i) ==
    /\ \A j \in 1..Len(ds) : ~KeyLess(ds[i], ds[j])
    /\ \A j \in 1..(i - 1) : \E k \in 1..Len(ds) : KeyLess(ds[j], ds[k])

\* C19: the result of core_word is a function of the token and of the dictionary
\* the file holds, whatever was analysed before; whatever the order of the
\* preposition set, one preposition at most can be the one stripped; and the
\* candidates have exactly one winner, which is the segmentation returned.
C19_DeterministicAnalysis ==
    Returned("core_word") =>
        /\ ret = CoreWordRet(arg, DiskDict)
        /\ Cardinality(FirstPrepositions(CoreStem)) <= 1
        /\ CoreCandidates # <<>> =>
               /\ Cardinality({i \in 1..Len(CoreCandidates) : IsWinner(CoreCandidates, i)}) = 1
               /\ \E i \in 1..Len(CoreCandidates) :
                      /\ IsWinner(CoreCandidates, i)
                      /\ RetSegmentation = Segmentation(CoreCandidates[i])

\* core_word has analysed a word that starts with two prepositions, one longer
\* than the other, and has found a candidate after the longer one.
C19_Witness ==
    /\ Returned("core_word")
    /\ Cardinality({prep \in PREPOSITIONS : StartsWith(CoreStem, prep)}) = 2
    /\ CoreCandidates # <<>>
    /\ ret.prefixes # <<>> /\ Len(ret.prefixes[1]) = 3

\* core_word has returned the first of two candidates that no key tells apart.
C19_WitnessTie ==
    /\ Returned("core_word")
    /\ \E i, j \in 1..Len(CoreCandidates) :
           /\ i < j
           /\ ~KeyLess(CoreCandidates[i], CoreCandidates[j])
           /\ ~KeyLess(CoreCandidates[j], CoreCandidates[i])
           /\ Segmentation(CoreCandidates[i]) # Segmentation(CoreCandidates[j])
           /\ RetSegmentation = Segmentation(CoreCandidates[i])

(* C20 *)

\* The tokens get_gloss is said to pass through: the empty string and the tokens
\* whose first character is not a letter
InvalidInput(word) ==
    word = "" \/ SubSeq(word, 1, 1) \notin Letters

\* C20: get_gloss of an empty string, or of a token whose first character is not
\* a letter, raises no exception and returns a pass-through CoredWord: the
\* original is the token, there are no prefixes, no root, no suffixes, no
\* ending, no definition and no parts.
C20_InvalidInputPassThrough ==
    (Returned("get_gloss") /\ InvalidInput(arg)) =>
        /\ ret.raised = ""
        /\ ret.word = arg
        /\ ret.prefixes = <<>>
        /\ ret.core = <<>>
        /\ ret.suffixes = <<>>
        /\ ret.ending = ""
        /\ ret.preferred_definition = ""
        /\ ret.core_definition = ""
        /\ ret.parts = <<>>

\* The same of the tokens that are not empty, which is what get_gloss does
C20_NonLetterPassThrough ==
    (Returned("get_gloss") /\ InvalidInput(arg) /\ arg # "") =>
        /\ ret.raised = ""
        /\ ret.word = arg
        /\ ret.prefixes = <<>>
        /\ ret.core = <<>>
        /\ ret.suffixes = <<>>
        /\ ret.ending = ""
        /\ ret.preferred_definition = ""
        /\ ret.core_definition = ""
        /\ ret.parts = <<>>

\* get_gloss has raised IndexError on the empty string
C20_EmptyStringRaises ==
    Returned("get_gloss") /\ arg = "" /\ ret.raised = "IndexError"

(* C21 *)

\* The tokens get_gloss sees as made of hyphen-delimited segments
HasSegments(word) ==
    ~InvalidInput(word) /\ Len(SplitHyphen(word)) > 1

\* C21: get_gloss of a token with a hyphen whose first segment is longer than
\* one character returns a CoredWord whose parts are one analysis per
\* hyphen-delimited segment, in order; a token whose first segment has one
\* character is not treated as hyphenated and has no parts.
C21_OnePartPerSegment ==
    (Returned("get_gloss") /\ HasSegments(arg)) =>
        IF Len(SplitHyphen(arg)[1]) > 1
        THEN /\ ret.raised = ""
             /\ ret.word = arg
             /\ ret.parts = SplitHyphen(arg)
        ELSE ret.parts = <<>>

\* The same of the calls that return
C21_OnePartPerSegmentIfReturned ==
    (Returned("get_gloss") /\ HasSegments(arg) /\ ret.raised = "") =>
        IF Len(SplitHyphen(arg)[1]) > 1
        THEN /\ ret.word = arg
             /\ ret.parts = SplitHyphen(arg)
        ELSE ret.parts = <<>>

\* get_gloss has returned the parts of a hyphenated token
C21_WitnessReturned ==
    Returned("get_gloss") /\ arg = "la-7" /\ ret.parts = <<"la", "7">>

\* get_gloss of two saved words joined by a hyphen has raised TypeError
C21_WitnessRaised ==
    /\ Returned("get_gloss") /\ arg = "la-kaj" /\ ret.raised = "TypeError"
    /\ {"la", "kaj"} \subseteq DOMAIN dictionary.words

(* C22 *)

\* C22: the root dictionary is loaded once per process, also when several
\* threads make their first call of _get_rad_dictionary at once: no second dict
\* object is made and no two callers are returned different objects.
C22_LoadedOnce ==
    /\ workers.made <= 1
    /\ Cardinality(workers.seen) <= 1

\* Every caller is returned a dict object with the keys of the file, and never
\* None
C22_EveryCallerGetsTheKeys ==
    /\ 0 \notin workers.seen
    /\ workers.cached # 0 =>
           /\ rad_dictionary_cache.loaded
           /\ rad_dictionary_cache.dict = LoadRadDictionary(rad_file)

\* Two threads have been returned two different dict objects
C22_WitnessTwoObjects ==
    workers.seen = {1, 2}

(* C23 *)

\* The stem the returned call of _strip_affixes2 or core_word segmented
SegmentedStem ==
    IF fn = "core_word" THEN NormalizeEnding(arg).word ELSE arg

\* C23: in every result of _strip_affixes2 and core_word the only element of
\* prefixes that may be a preposition is the first; every other element is one
\* of PREFIXES and every element of suffixes is one of SUFFIXES; the prefixes
\* are in the order they stand at the front of the stem and the suffixes in the
\* order they stand at its end.
C23_AffixListsWellFormed ==
    (Returned("_strip_affixes2") \/ Returned("core_word")) =>
        /\ \A i \in 1..Len(ret.prefixes) :
               \/ ret.prefixes[i] \in Range(PREFIXES)
               \/ i = 1 /\ ret.prefixes[i] \in PREPOSITIONS
        /\ \A i \in 1..Len(ret.suffixes) : ret.suffixes[i] \in Range(SUFFIXES)
        /\ StartsWith(SegmentedStem, Join(ret.prefixes))
        /\ EndsWith(SegmentedStem, Join(ret.suffixes))

\* _strip_affixes2 has returned a preposition before a prefix
C23_Witness ==
    /\ Returned("_strip_affixes2")
    /\ Len(ret.prefixes) = 2
    /\ ret.prefixes[1] \in PREPOSITIONS
    /\ ret.prefixes[2] \in Range(PREFIXES)
    /\ ret.suffixes # <<>>

\* _strip_affixes2 has returned two suffixes
C23_WitnessSuffixes ==
    /\ Returned("_strip_affixes2")
    /\ Len(ret.suffixes) = 2
    /\ ret.suffixes[1] # ret.suffixes[2]

(* C24 *)

\* The indexes of the affix-reconstruction candidates cands that give back the
\* last k of the stripped prefixes and the first m of the stripped suffixes of
\* the maximum stripping ms
CandidatesFor(cands, ms, k, m) ==
    {i \in 1..Len(cands) :
        /\ cands[i].core =
               << Join(SubSeq(ms.temp_prefixes, Len(ms.temp_prefixes) - k + 1,
                              Len(ms.temp_prefixes)))
                  \o ms.remainder \o Join(SubSeq(ms.temp_suffixes, 1, m)) >>
        /\ cands[i].prefixes =
               ms.preposition \o SubSeq(ms.temp_prefixes, 1, Len(ms.temp_prefixes) - k)
        /\ cands[i].suffixes =
               SubSeq(ms.temp_suffixes, m + 1, Len(ms.temp_suffixes))}

\* The pairs (k, m) whose reconstructed root is a root of the dictionary
ValidPairs(ms, rad_dict) ==
    {g \in (0..Len(ms.temp_prefixes)) \X (0..Len(ms.temp_suffixes)) :
        Join(SubSeq(ms.temp_prefixes, Len(ms.temp_prefixes) - g[1] + 1,
                    Len(ms.temp_prefixes)))
        \o ms.remainder \o Join(SubSeq(ms.temp_suffixes, 1, g[2])) \in rad_dict}

\* The claim of C24 about the candidates cands of a maximum stripping ms
ExhaustiveSearch(cands, ms, rad_dict) ==
    /\ \A g \in ValidPairs(ms, rad_dict) :
           Cardinality(CandidatesFor(cands, ms, g[1], g[2])) = 1
    /\ Len(cands) = Cardinality(ValidPairs(ms, rad_dict))

\* C24: the affix-reconstruction candidates of _strip_affixes2 are exactly one
\* for every pair (k, m), 0 <= k <= p and 0 <= m <= s, such that the last k
\* stripped prefixes + the remainder + the first m stripped suffixes is a valid
\* root, and no others; its prefixes are the preposition, if any, and the first
\* p-k stripped prefixes, its suffixes the last s-m stripped suffixes.
C24_ExhaustiveReconstruction ==
    Returned("_strip_affixes2") =>
        ExhaustiveSearch(AffixCandidates, MaxStrip(arg), RadDict)

\* The search of the returned call has accepted three pairs and rejected one.
C24_Witness ==
    /\ Returned("_strip_affixes2")
    /\ Len(AffixCandidates) = 3
    /\ Cardinality(GiveBacks) = 4
    /\ \E g \in GiveBacks : g[1] = 1 /\ g[2] = 0 /\ Accepted(g)

(* C25 *)

\* C25: prefixes + core + suffixes of the result of _strip_affixes2, joined, are
\* the stem it was given, whichever branch the result comes from; and those of
\* the result of core_word, after the promotion into an empty root, are the
\* stem core_word handed to _strip_affixes2.
C25_StemConcatenation ==
    (Returned("_strip_affixes2") \/ Returned("core_word")) =>
        Join(ret.prefixes) \o Join(ret.core) \o Join(ret.suffixes) = SegmentedStem

\* _strip_affixes2 has returned the compound split of the remainder, between a
\* stripped prefix and a stripped suffix.
C25_Witness ==
    /\ Returned("_strip_affixes2")
    /\ RemainderCandidate # <<>>
    /\ RetSegmentation = Segmentation(RemainderCandidate[1])
    /\ Len(ret.core) > 1
    /\ ret.prefixes # <<>> \/ ret.suffixes # <<>>

\* _strip_affixes2 has returned an affix-reconstruction candidate that gave a
\* prefix back to the root.
C25_WitnessReconstruction ==
    /\ Returned("_strip_affixes2")
    /\ \E g \in GiveBacks :
           /\ g[1] > 0 /\ Accepted(g)
           /\ ret.core = <<TestedRoot(g)>>

\* _strip_affixes2 has returned the compound split of the original stem, which
\* ends with a suffix.
C25_WitnessOriginal ==
    /\ Returned("_strip_affixes2")
    /\ OriginalCandidate # <<>>
    /\ RetSegmentation = Segmentation(OriginalCandidate[1])
    /\ MaxStrip(arg).temp_suffixes # <<>>

\* _strip_affixes2 has fallen back on the maximum stripping.
C25_WitnessFallback ==
    /\ Returned("_strip_affixes2")
    /\ Candidates = <<>>
    /\ ret.prefixes # <<>> /\ ret.suffixes # <<>>

\* core_word has promoted an affix into the empty root.
C25_WitnessPromotion ==
    /\ Returned("core_word")
    /\ EmptyRoot
    /\ ret.core # Stripped.core

(* C26 *)

\* The compound-split candidates of the returned call
CompoundCandidates ==
    RemainderCandidate \o OriginalCandidate

\* C26: when an affix-reconstruction candidate with penalty <= 0 exists,
\* _strip_affixes2 returns a core of exactly one element, however long the roots
\* of a compound split are; a compound core is returned only when every
\* affix-reconstruction candidate, if there is any, carries the penalty 1000.
C26_AffixCandidateBeatsCompound ==
    Returned("_strip_affixes2") =>
        /\ (\E i \in 1..Len(AffixCandidates) : AffixCandidates[i].penalty <= 0)
               => Len(ret.core) = 1
        /\ Len(ret.core) > 1
               => \A i \in 1..Len(AffixCandidates) : AffixCandidates[i].penalty = 1000

\* _strip_affixes2 has returned one root although a compound split had a
\* larger validated root length than every affix-reconstruction candidate.
C26_Witness ==
    /\ Returned("_strip_affixes2")
    /\ Len(ret.core) = 1
    /\ \E i \in 1..Len(AffixCandidates) : AffixCandidates[i].penalty <= 0
    /\ \E j \in 1..Len(CompoundCandidates) :
           \A i \in 1..Len(AffixCandidates) :
               CompoundCandidates[j].root_len > AffixCandidates[i].root_len

\* _strip_affixes2 has returned a compound although an affix-reconstruction
\* candidate existed, with the penalty 1000.
C26_WitnessPenalized ==
    /\ Returned("_strip_affixes2")
    /\ Len(ret.core) > 1
    /\ AffixCandidates # <<>>

(* C27 *)

\* C27: the ending core_word returns is "", "a", "e", "i" or "o" and never "u":
\* a normalized word still ending in "u" is a closed-class word, which keeps its
\* vowel; and the ending is "" for a normalized word of fewer than 2
\* characters, unless the verb-suffix rule forces "i".
C27_EndingAlphabet ==
    Returned("core_word") =>
        /\ ret.ending \in {"", "a", "e", "i", "o"}
        /\ ret.ending # "u"
        /\ EndsWith(NormalizedInput(arg), "u") =>
               /\ NormalizedInput(arg) \in VORTETOJ
               /\ NormalizeEnding(arg).orig_ending = ""
        /\ (Len(NormalizedInput(arg)) < 2 /\ ~EndingForced) => ret.ending = ""

\* core_word has returned the ending "i" for a token that ends in "u".
C27_Witness ==
    /\ Returned("core_word")
    /\ EndsWith(Lower(arg), "u")
    /\ Lower(arg) \notin VORTETOJ
    /\ ret.ending = "i"

\* core_word has returned no ending for a closed-class word that ends in "u".
C27_WitnessParticle ==
    /\ Returned("core_word")
    /\ EndsWith(NormalizedInput(arg), "u")
    /\ ret.ending = ""

\* core_word has returned no ending for a token of one letter, a vowel.
C27_WitnessShort ==
    /\ Returned("core_word")
    /\ arg \in {"a", "i"}
    /\ ret.ending = ""

(* C28 *)

\* Nested calls of _try_split_compound the interpreter allows before it raises
\* RecursionError: sys.getrecursionlimit() frames (1000 unless the caller
\* changed it), scaled here to the stems of this model.
RecursionLimit == 2

\* The split the loop of _try_split_compound finds for word before it recurses
\* on the right part, <<>> for none
LoopSplit(word, rad_dict) ==
    IF Len(word) < 4 THEN <<>>
    ELSE SplitLoop(word, rad_dict, 2, [split |-> <<>>, score |-> 0]).split

\* The calls of _try_split_compound that are active at once when it is called
\* on word: the call itself and, if its loop has found a split, the calls it
\* makes on the right part.
RECURSIVE SplitDepth(_, _)
SplitDepth(word, rad_dict) ==
    IF LoopSplit(word, rad_dict) = <<>> THEN 1
    ELSE 1 + SplitDepth(LoopSplit(word, rad_dict)[Len(LoopSplit(word, rad_dict))],
                        rad_dict)

\* The measures that bound the work of _strip_affixes2 on stem: every stripping
\* step takes at least one character off the stem, the reconstruction search
\* appends at most one candidate for each of the (p+1)*(s+1) pairs, and the
\* compound splitter recurses only on a right part shorter than its word.
BoundedWork(stem, ms, rad_dict) ==
    /\ \A affix \in Range(ms.preposition \o ms.temp_prefixes \o ms.temp_suffixes) :
           Len(affix) >= 1
    /\ Len(Join(ms.preposition)) + Len(Join(ms.temp_prefixes)) + Len(ms.remainder)
           + Len(Join(ms.temp_suffixes)) = Len(stem)
    /\ Len(ms.preposition) + Len(ms.temp_prefixes) + Len(ms.temp_suffixes) <= Len(stem)
    /\ Len(ReconstructionLoop(ms, rad_dict, 0))
           <= (Len(ms.temp_prefixes) + 1) * (Len(ms.temp_suffixes) + 1)
    /\ \A word \in {stem, ms.remainder} :
           LoopSplit(word, rad_dict) # <<>> =>
               Len(LoopSplit(word, rad_dict)[Len(LoopSplit(word, rad_dict))])
                   < Len(word)

\* The interpreter has frames enough for the nested calls the compound splitter
\* makes on the remainder and on the stem.
WithinRecursionLimit(stem, ms, rad_dict) ==
    \A word \in {stem, ms.remainder} : SplitDepth(word, rad_dict) <= RecursionLimit

\* C28: core_word is total: for every token and every dictionary it returns a
\* CoredWord and raises nothing; each prefix or suffix stripping step strictly
\* shortens the stem, the give-back search makes at most (p+1)*(s+1)
\* candidates, and the compound splitter recurses only on a strictly shorter
\* right part, within the frames the interpreter allows.
C28_CoreWordTotal ==
    Returned("core_word") =>
        /\ ret.raised = ""
        /\ ret.word = arg
        /\ Len(ret.core) >= 1
        /\ BoundedWork(NormalizeEnding(arg).word, MaxStrip(NormalizeEnding(arg).word),
                       RadDict)
        /\ WithinRecursionLimit(NormalizeEnding(arg).word,
                                MaxStrip(NormalizeEnding(arg).word), RadDict)

\* C28, the part that holds: every call of core_word ends, by the measures of
\* its loops and of the splitter's recursion, and within those measures it
\* returns a CoredWord of the token.
C28_TerminationMeasures ==
    Returned("core_word") =>
        /\ ret.raised = ""
        /\ ret.word = arg
        /\ Len(ret.core) >= 1
        /\ BoundedWork(NormalizeEnding(arg).word, MaxStrip(NormalizeEnding(arg).word),
                       RadDict)

\* C28, the nesting of the splitter grows with the word: one nested call for
\* every root of the dictionary the right part keeps starting with, at most one
\* for every two letters.
C28_NestingGrowsWithTheWord ==
    Returned("_try_split_compound") =>
        /\ 2 * (SplitDepth(arg, RadDict) - 1) <= Len(arg)
        /\ (arg = "bonbonhum" /\ {"bon", "hum", "bonhum"} \subseteq RadDict)
               => SplitDepth(arg, RadDict) = 3

\* core_word has returned for a token with a prefix and a suffix stripped
\* whose remainder the compound splitter has split.
C28_Witness ==
    /\ Returned("core_word")
    /\ MaxStrip(NormalizeEnding(arg).word).temp_prefixes # <<>>
    /\ LoopSplit(MaxStrip(NormalizeEnding(arg).word).remainder, RadDict) # <<>>

\* core_word has returned for the empty token.
C28_WitnessEmpty ==
    /\ Returned("core_word")
    /\ arg = ""
    /\ ret.core = <<"">>

\* core_word has returned for a token on whose stem the splitter nests deeper
\* than the limit.
C28_WitnessDeepNesting ==
    /\ Returned("core_word")
    /\ SplitDepth(NormalizeEnding(arg).word, RadDict) > RecursionLimit

(* C29 *)

\* The lists of a CoredWord are five objects, each created while the call that
\* returned it ran: none existed before the call, so none is a list of an
\* earlier result or of the configuration.
NotAliased(objects) ==
    /\ \A field \in DOMAIN objects : objects[field].by = "call"
    /\ \A f, g \in DOMAIN objects :
           f # g => objects[f].created_at # objects[g].created_at

C29_WitnessCompound ==
    /\ Returned("core_word")
    /\ ret.objects.core = Object(158)
    /\ ret.objects.prefixes = Object(322)

(* C30 *)

\* The first word of base_word + ending, ending running through the fixed
\* list, that is a headword of kap_dict; None when none is
FirstHeadword(base_word, kap_dict) ==
    IF \A i \in DOMAIN endings : (base_word \o endings[i]) \notin DOMAIN kap_dict
    THEN None
    ELSE base_word \o endings[CHOOSE i \in DOMAIN endings :
                                 /\ (base_word \o endings[i]) \in DOMAIN kap_dict
                                 /\ \A j \in 1..(i - 1) :
                                        (base_word \o endings[j]) \notin DOMAIN kap_dict]

\* The headword has senses in the file of its article.
WithSenses(headword, kap_dict, jsondata) ==
    /\ headword \in DOMAIN kap_dict
    /\ kap_dict[headword] \in DOMAIN jsondata
    /\ headword \in DOMAIN jsondata[kap_dict[headword]]

\* The first headword for base_word has senses.
BaseSucceeds(base_word, kap_dict, jsondata) ==
    WithSenses(FirstHeadword(base_word, kap_dict), kap_dict, jsondata)

\* The numbers of suffixes kept, fewer than all, with which strategy 2.5 succeeds
StrippedSucceeds(cored, kap_dict, jsondata) ==
    {i \in 0..(Len(cored.suffixes) - 1) :
        BaseSucceeds(PartialBase(cored, i), kap_dict, jsondata)}

\* The roots of the core, linking vowels left out, strategy 3 finds senses for
CoresSucceeding(cored, kap_dict, rad_dict, jsondata) ==
    {core_part \in Range(cored.core) :
        /\ ~(Len(core_part) = 1 /\ core_part \in LINKING_VOWELS)
        /\ core_part \in rad_dict
        /\ \/ WithSenses(core_part \o cored.preferred_ending, kap_dict, jsondata)
           \/ BaseSucceeds(core_part, kap_dict, jsondata)}

\* The method lookup_word_definitions is to report: the first strategy, in the
\* order exact, with_ending, suffix_stripped, core, that succeeds; None for none
FirstStrategy(word, cored, kap_dict, rad_dict, jsondata) ==
    IF WithSenses(word, kap_dict, jsondata) THEN "exact"
    ELSE IF BaseSucceeds(PartialBase(cored, Len(cored.suffixes)), kap_dict, jsondata)
    THEN "with_ending"
    ELSE IF StrippedSucceeds(cored, kap_dict, jsondata) # {} THEN "suffix_stripped"
    ELSE IF CoresSucceeding(cored, kap_dict, rad_dict, jsondata) # {} THEN "core"
    ELSE None

\* The word the strategy `method` has found
FoundBy(method, word, cored, kap_dict, jsondata) ==
    CASE method = "exact" -> word
      [] method = "with_ending" ->
             FirstHeadword(PartialBase(cored, Len(cored.suffixes)), kap_dict)
      [] method = "suffix_stripped" ->
             FirstHeadword(PartialBase(cored,
                               CHOOSE i \in StrippedSucceeds(cored, kap_dict, jsondata) :
                                   \A j \in StrippedSucceeds(cored, kap_dict, jsondata) :
                                       j <= i),
                           kap_dict)
      [] method = "core" -> JoinWith(cored.core, "|")
      [] OTHER -> None

\* C30: lookup_word_definitions reports in lookup_method the first of its
\* strategies that succeeds, in the order exact (the word is a headword with
\* senses), with_ending (prefixes + core + suffixes with the first ending of the
\* list that gives a headword), suffix_stripped (suffixes dropped one at a time
\* from the end), core (every root but the linking vowels looked up), together
\* with the word that strategy found; when none succeeds the result is
\* found = False, lookup_method = None, lookup_word = None, definitions = {}.
C30_FirstStrategyReported ==
    Returned("lookup_word_definitions") =>
        /\ lookup.result.lookup_method =
               FirstStrategy(lookup.word, lookup.cored, lookup.kap_dict,
                             lookup.rad_dict, lookup.jsondata)
        /\ lookup.result.lookup_word =
               FoundBy(lookup.result.lookup_method, lookup.word, lookup.cored,
                       lookup.kap_dict, lookup.jsondata)
        /\ lookup.result.found = (lookup.result.lookup_method # None)
        /\ lookup.result.lookup_method = "core" =>
               DOMAIN lookup.result.definitions =
                   CoresSucceeding(lookup.cored, lookup.kap_dict, lookup.rad_dict,
                                   lookup.jsondata)
        /\ lookup.result.lookup_method \notin {"core", None} =>
               \E key \in DOMAIN lookup.result.definitions :
                   /\ DOMAIN lookup.result.definitions = {key}
                   /\ DOMAIN lookup.result.definitions[key] = {lookup.result.lookup_word}
        /\ lookup.result.lookup_method = None => lookup.result = NotFound

\* lookup_word_definitions has reported with_ending for a word that stripping
\* a suffix would have found too, and whose own headword has no senses.
C30_Witness ==
    /\ Returned("lookup_word_definitions")
    /\ lookup.result.lookup_method = "with_ending"
    /\ StrippedSucceeds(lookup.cored, lookup.kap_dict, lookup.jsondata) # {}

C30_WitnessExact ==
    /\ Returned("lookup_word_definitions")
    /\ lookup.result.lookup_method = "exact"
    /\ BaseSucceeds(PartialBase(lookup.cored, Len(lookup.cored.suffixes)),
                    lookup.kap_dict, lookup.jsondata)

C30_WitnessSuffixStripped ==
    /\ Returned("lookup_word_definitions")
    /\ lookup.result.lookup_method = "suffix_stripped"
    /\ lookup.word \in DOMAIN lookup.kap_dict

C30_WitnessCore ==
    /\ Returned("lookup_word_definitions")
    /\ lookup.result.lookup_method = "core"
    /\ \E i \in DOMAIN lookup.cored.core : lookup.cored.core[i] \in LINKING_VOWELS
    /\ Cardinality(DOMAIN lookup.result.definitions) = 2

C30_WitnessNotFound ==
    /\ Returned("lookup_word_definitions")
    /\ lookup.result = NotFound
    /\ lookup.kap_dict # EmptyDict
    /\ lookup.jsondata # EmptyDict

====
